---- MODULE Spec2Model ----
(***************************************************************************)
(* Model of wolgate: the Wake-on-LAN core (package wol: MAC text parsing, *)
(* magic packet construction, the Send / SendRepeat / sendPacket          *)
(* transmission path), the wake endpoint of the web handler, the          *)
(* configuration layers and the device store.  Text is modelled as a      *)
(* sequence of one-character strings, bytes as integers 0..255.           *)
(***************************************************************************)
EXTENDS Integers, Sequences, FiniteSets, TLC

VARIABLES
    src,          \* how the MAC text was produced (address, notation, case, edit)
    mac,          \* the MAC text handed to parseMAC / ValidateMAC / NormalizeMAC
    parsed,       \* result of parseMAC(mac), or NotCalled
    validated,    \* result of ValidateMAC(mac), or NotCalled
    normalized,   \* result of NormalizeMAC(mac), or NotCalled
    pktIn,        \* the byte slice handed to constructMagicPacket
    packet,       \* result of constructMagicPacket(pktIn), or NotCalled
    newIn,        \* the arguments NewSender was called with, or NotCalled
    sender,       \* the *WOLSender NewSender returned: Nil or [iface, broadcast]
    newErr,       \* the error NewSender returned
    calls,        \* per caller: the Send / SendRepeat call in progress
    req,          \* the HTTP request wakeHandler is serving, or NotCalled
    resp,         \* the HTTP response wakeHandler wrote, or NotCalled
    cfgIn,        \* the command line, environment and config file of one run
    cfg,          \* the configuration the command ends up using, or NotCalled
    devices,      \* Store.devices: the devices in memory, in order
    disk,         \* the contents of the store file, or Nil when there is none
    lastOp,       \* the last Store call: its arguments, its error, devices before
    arpFile,      \* the ARP table file handed to ParsePath
    arpResult,    \* what ParsePath returned, or NotCalled
    mu,           \* Store.mu: the goroutine holding the write lock, the readers
    threads,      \* per goroutine: its calls on the store and where it stands
    history,      \* the device lists successful Adds have left, oldest first
    importBuild,  \* which of the two handleImportPost sources is compiled in
    inflight,     \* per connection: the API request being served
    logger,       \* the Logger, with what its latest Log call did
    logDir,       \* the directory of the log file, and the clock
    cleanups      \* per rotation: the cleanupOldBackups goroutine it started

macVars == <<src, mac, parsed, validated, normalized>>
pktVars == <<pktIn, packet>>
sndVars == <<newIn, sender, newErr, calls>>
webVars == <<req, resp>>
cfgVars == <<cfgIn, cfg>>
storeVars == <<devices, disk, lastOp>>
arpVars == <<arpFile, arpResult>>
lockVars == <<mu, threads, history>>
apiVars == <<importBuild, inflight>>
logVars == <<logger, logDir, cleanups>>
extVars == <<arpVars, lockVars, apiVars, logVars>>
appVars == <<webVars, cfgVars, storeVars, extVars>>
vars == <<src, mac, parsed, validated, normalized, pktIn, packet,
          newIn, sender, newErr, calls, req, resp, cfgIn, cfg,
          devices, disk, lastOp, arpFile, arpResult, mu, threads, history,
          importBuild, inflight, logger, logDir, cleanups>>

NotCalled == [called |-> FALSE]

(***************************************************************************)
(* Characters and hexadecimal digits                                       *)
(***************************************************************************)
HexDigitsUpper == <<"0","1","2","3","4","5","6","7","8","9","A","B","C","D","E","F">>
HexDigitsLower == <<"0","1","2","3","4","5","6","7","8","9","a","b","c","d","e","f">>

\* [0-9A-Fa-f]
IsHex(c) == \E k \in 1..16 : c = HexDigitsUpper[k] \/ c = HexDigitsLower[k]

\* value of one hex digit (encoding/hex fromHexChar)
fromHexChar(c) == (CHOOSE k \in 1..16 : c = HexDigitsUpper[k] \/ c = HexDigitsLower[k]) - 1

\* unicode.IsSpace restricted to the characters used here
IsSpace(c) == c \in {" ", "\t", "\n", "\r"}

(***************************************************************************)
(* strings package                                                         *)
(***************************************************************************)
RECURSIVE TrimLeft(_)
TrimLeft(s) == IF s # <<>> /\ IsSpace(Head(s)) THEN TrimLeft(Tail(s)) ELSE s

RECURSIVE TrimRight(_)
TrimRight(s) ==
    IF s # <<>> /\ IsSpace(s[Len(s)]) THEN TrimRight(SubSeq(s, 1, Len(s) - 1)) ELSE s

\* strings.TrimSpace
TrimSpace(s) == TrimRight(TrimLeft(s))

\* strings.Contains(s, c) for a one-character needle
Contains(s, c) == \E k \in 1..Len(s) : s[k] = c

\* strings.ReplaceAll(s, old, "") for a one-character old
RemoveAll(s, old) == SelectSeq(s, LAMBDA c : c # old)

\* strings.ReplaceAll(s, old, new) for one-character old and new
ReplaceAll(s, old, new) == [k \in 1..Len(s) |-> IF s[k] = old THEN new ELSE s[k]]

RECURSIVE Join(_, _)
\* strings.Join(parts, sep)
Join(parts, sep) ==
    IF parts = <<>> THEN <<>>
    ELSE IF Len(parts) = 1 THEN parts[1]
    ELSE parts[1] \o <<sep>> \o Join(Tail(parts), sep)

(***************************************************************************)
(* package wol: MAC parsing                                                *)
(***************************************************************************)
\* macRegex = ^([0-9A-Fa-f]{2}:){5}[0-9A-Fa-f]{2}$
RegexGroups == 5
RegexHexWidth == 2

macRegexMatch(s) ==
    LET g == RegexHexWidth + 1 IN
    /\ Len(s) = RegexGroups * g + RegexHexWidth
    /\ \A j \in 0..(RegexGroups - 1) :
          /\ \A d \in 1..RegexHexWidth : IsHex(s[j * g + d])
          /\ s[j * g + g] = ":"
    /\ \A d \in 1..RegexHexWidth : IsHex(s[RegexGroups * g + d])

RECURSIVE insertColonsFrom(_, _, _)
insertColonsFrom(s, n, i) ==
    IF i >= Len(s) THEN <<>>
    ELSE (IF i > 0 /\ i % n = 0 THEN <<":">> ELSE <<>>)
         \o <<s[i + 1]>> \o insertColonsFrom(s, n, i + 1)

\* insertColons inserts colons every n characters.
insertColons(s, n) == insertColonsFrom(s, n, 0)

\* the notation rewriting shared by parseMAC and ValidateMAC
NoErr == [kind |-> "nil"]
InvalidFormat(text) == [kind |-> "invalid MAC address format", text |-> text]
ParseFailure == [kind |-> "failed to parse MAC address"]

\* variant: the two digits of each byte are combined low nibble first
hexDecodeString_Swapped(s) ==
    IF Len(s) % 2 = 1 \/ \E k \in 1..Len(s) : ~IsHex(s[k])
    THEN [bytes |-> <<>>, ok |-> FALSE]
    ELSE [bytes |-> [k \in 1..(Len(s) \div 2) |->
                        16 * fromHexChar(s[2 * k]) + fromHexChar(s[2 * k - 1])],
          ok |-> TRUE]

\* encoding/hex DecodeString
hexDecodeString(s) ==
    IF Len(s) % 2 = 1 \/ \E k \in 1..Len(s) : ~IsHex(s[k])
    THEN [bytes |-> <<>>, ok |-> FALSE]
    ELSE [bytes |-> [k \in 1..(Len(s) \div 2) |->
                        16 * fromHexChar(s[2 * k - 1]) + fromHexChar(s[2 * k])],
          ok |-> TRUE]

\* variant: the format check is skipped and the text goes straight to the decoder
parseMAC_NoRegex(text) ==
    LET t == TrimSpace(text)
        m == IF Contains(t, ".")
             THEN insertColons(RemoveAll(t, "."), 2)
             ELSE ReplaceAll(t, "-", ":")
        d == hexDecodeString(RemoveAll(m, ":"))
    IN  IF ~d.ok
        THEN [called |-> TRUE, bytes |-> <<>>, err |-> ParseFailure]
        ELSE [called |-> TRUE, bytes |-> d.bytes, err |-> NoErr]

\* variant: the error reports the caller's text instead of the rewritten one
parseMAC_OriginalText(text) ==
    LET t == TrimSpace(text)
        m == IF Contains(t, ".")
             THEN insertColons(RemoveAll(t, "."), 2)
             ELSE ReplaceAll(t, "-", ":")
    IN  IF ~macRegexMatch(m)
        THEN [called |-> TRUE, bytes |-> <<>>, err |-> InvalidFormat(text)]
        ELSE LET d == hexDecodeString(RemoveAll(m, ":")) IN
             IF ~d.ok
             THEN [called |-> TRUE, bytes |-> <<>>, err |-> ParseFailure]
             ELSE [called |-> TRUE, bytes |-> d.bytes, err |-> NoErr]

parseMAC(text) ==
    LET t == TrimSpace(text)
        m == IF Contains(t, ".")
             THEN insertColons(RemoveAll(t, "."), 2)
             ELSE ReplaceAll(t, "-", ":")
    IN  IF ~macRegexMatch(m)
        THEN [called |-> TRUE, bytes |-> <<>>, err |-> InvalidFormat(m)]
        ELSE LET d == hexDecodeString(RemoveAll(m, ":")) IN
             IF ~d.ok
             THEN [called |-> TRUE, bytes |-> <<>>, err |-> ParseFailure]
             ELSE [called |-> TRUE, bytes |-> d.bytes, err |-> NoErr]

\* variant: the surrounding whitespace is not trimmed
ValidateMAC_NoTrim(text) ==
    LET m == IF Contains(text, ".")
             THEN insertColons(RemoveAll(text, "."), 2)
             ELSE ReplaceAll(text, "-", ":")
    IN  IF ~macRegexMatch(m)
        THEN [called |-> TRUE, err |-> InvalidFormat(m)]
        ELSE [called |-> TRUE, err |-> NoErr]

ValidateMAC(text) ==
    LET t == TrimSpace(text)
        m == IF Contains(t, ".")
             THEN insertColons(RemoveAll(t, "."), 2)
             ELSE ReplaceAll(t, "-", ":")
    IN  IF ~macRegexMatch(m)
        THEN [called |-> TRUE, err |-> InvalidFormat(m)]
        ELSE [called |-> TRUE, err |-> NoErr]

\* variant: the verb is %02x
Sprintf02X_Lower(b) == <<HexDigitsLower[(b \div 16) + 1], HexDigitsLower[(b % 16) + 1]>>

\* fmt.Sprintf("%02X", b)
Sprintf02X(b) == <<HexDigitsUpper[(b \div 16) + 1], HexDigitsUpper[(b % 16) + 1]>>

NormalizeMAC(text) ==
    LET p == parseMAC(text) IN
    IF p.err # NoErr
    THEN [called |-> TRUE, str |-> <<>>, err |-> p.err]
    ELSE LET parts == [i \in 1..6 |->
                          IF i <= Len(p.bytes) THEN Sprintf02X(p.bytes[i]) ELSE <<>>]
         IN  [called |-> TRUE, str |-> Join(parts, ":"), err |-> NoErr]

(***************************************************************************)
(* package wol: magic packet                                               *)
(***************************************************************************)
PacketLen == 6 + 16 * 6

\* the builtin copy(dst[off:], from): copies min(len(dst)-off, len(from)) bytes
CopyAt(dst, off, from) ==
    [k \in 1..Len(dst) |->
        IF k > off /\ k - off <= Len(from) THEN from[k - off] ELSE dst[k]]

RECURSIVE CopyMACs(_, _, _)
CopyMACs(pkt, m, i) ==
    IF i >= 16 THEN pkt ELSE CopyMACs(CopyAt(pkt, 6 + i * 6, m), m, i + 1)

\* variant: the repetition loop starts at 1 instead of 0
constructMagicPacket_SkipFirst(m) ==
    LET zero == [k \in 1..PacketLen |-> 0]
        sync == [k \in 1..PacketLen |-> IF k - 1 < 6 THEN 255 ELSE zero[k]]
    IN  CopyMACs(sync, m, 1)

constructMagicPacket(m) ==
    LET zero == [k \in 1..PacketLen |-> 0]
        sync == [k \in 1..PacketLen |-> IF k - 1 < 6 THEN 255 ELSE zero[k]]
    IN  CopyMACs(sync, m, 0)

(***************************************************************************)
(* net.ParseIP (standard library, as used by NewSender and sendPacket).    *)
(* The result is the 16-byte form of the address, as ParseIP returns it.   *)
(***************************************************************************)
DecDigits == <<"0","1","2","3","4","5","6","7","8","9">>
IsDigit(c) == \E k \in 1..10 : c = DecDigits[k]
DigitVal(c) == (CHOOSE k \in 1..10 : c = DecDigits[k]) - 1

NoIP == [ok |-> FALSE, ip |-> <<>>]

RECURSIVE parseIPv4Fields(_, _, _, _, _)
\* position (0-based), current field value, its digit count, fields done so far
parseIPv4Fields(s, i, val, digLen, fields) ==
    IF i >= Len(s)
    THEN IF Len(fields) < 3 THEN <<>> ELSE Append(fields, val)
    ELSE LET c == s[i + 1] IN
         IF IsDigit(c)
         THEN IF digLen = 1 /\ val = 0 THEN <<>>
              ELSE IF val * 10 + DigitVal(c) > 255 THEN <<>>
              ELSE parseIPv4Fields(s, i + 1, val * 10 + DigitVal(c), digLen + 1, fields)
         ELSE IF c = "."
         THEN IF i = 0 \/ i = Len(s) - 1 \/ s[i] = "." THEN <<>>
              ELSE IF Len(fields) = 3 THEN <<>>
              ELSE parseIPv4Fields(s, i + 1, 0, 0, Append(fields, val))
         ELSE <<>>

\* the four octets of a dotted-decimal text, or <<>> when it is malformed
parseIPv4(s) == parseIPv4Fields(s, 0, 0, 0, <<>>)

V4InV6Prefix == <<0, 0, 0, 0, 0, 0, 0, 0, 0, 0, 255, 255>>

RECURSIVE hexRun(_, _)
\* number of leading hex digits of s from 0-based position i
hexRun(s, i) == IF i < Len(s) /\ IsHex(s[i + 1]) THEN 1 + hexRun(s, i + 1) ELSE 0

RECURSIVE hexValue(_, _, _)
hexValue(s, i, n) ==
    IF n = 0 THEN 0 ELSE 16 * hexValue(s, i, n - 1) + fromHexChar(s[i + n])

Zeros(n) == [k \in 1..n |-> 0]

RECURSIVE parseIPv6Groups(_, _, _, _)
\* position (0-based), bytes produced so far, index of the "::" or -1
parseIPv6Groups(s, pos, ip, ellipsis) ==
    LET Finish(bytes, e) ==
            IF Len(bytes) = 16
            THEN IF e >= 0 THEN NoIP ELSE [ok |-> TRUE, ip |-> bytes]
            ELSE IF e < 0 THEN NoIP
            ELSE [ok |-> TRUE,
                  ip |-> SubSeq(bytes, 1, e) \o Zeros(16 - Len(bytes))
                         \o SubSeq(bytes, e + 1, Len(bytes))]
    IN
    IF Len(ip) >= 16 THEN (IF pos < Len(s) THEN NoIP ELSE Finish(ip, ellipsis))
    ELSE LET n == hexRun(s, pos) IN
         IF n = 0 \/ n > 4 THEN NoIP
         ELSE IF pos + n < Len(s) /\ s[pos + n + 1] = "."
         THEN \* embedded IPv4 tail
              IF ellipsis < 0 /\ Len(ip) # 12 THEN NoIP
              ELSE IF Len(ip) + 4 > 16 THEN NoIP
              ELSE LET v4 == parseIPv4(SubSeq(s, pos + 1, Len(s))) IN
                   IF v4 = <<>> THEN NoIP ELSE Finish(ip \o v4, ellipsis)
         ELSE LET v    == hexValue(s, pos, n)
                  ip2  == ip \o <<v \div 256, v % 256>>
                  p2   == pos + n
              IN  IF p2 >= Len(s) THEN Finish(ip2, ellipsis)
                  ELSE IF s[p2 + 1] # ":" \/ p2 + 1 >= Len(s) THEN NoIP
                  ELSE IF s[p2 + 2] = ":"
                  THEN IF ellipsis >= 0 THEN NoIP
                       ELSE IF p2 + 2 >= Len(s) THEN Finish(ip2, Len(ip2))
                       ELSE parseIPv6Groups(s, p2 + 2, ip2, Len(ip2))
                  ELSE parseIPv6Groups(s, p2 + 1, ip2, ellipsis)

parseIPv6(s) ==
    IF Len(s) >= 2 /\ s[1] = ":" /\ s[2] = ":"
    THEN IF Len(s) = 2 THEN [ok |-> TRUE, ip |-> Zeros(16)]
         ELSE parseIPv6Groups(s, 2, <<>>, 0)
    ELSE parseIPv6Groups(s, 0, <<>>, -1)

RECURSIVE firstOf(_, _)
\* the first of '.', ':' and '%' in s, or "" when it has none
firstOf(s, i) ==
    IF i > Len(s) THEN ""
    ELSE IF s[i] \in {".", ":", "%"} THEN s[i] ELSE firstOf(s, i + 1)

ParseIP(s) ==
    LET c == firstOf(s, 1) IN
    IF c = "."
    THEN LET v4 == parseIPv4(s) IN
         IF v4 = <<>> THEN NoIP ELSE [ok |-> TRUE, ip |-> V4InV6Prefix \o v4]
    ELSE IF c = ":" THEN (IF Contains(s, "%") THEN NoIP ELSE parseIPv6(s))
    ELSE NoIP

(***************************************************************************)
(* Inputs of the MAC text operations: a logical address written in one of  *)
(* the three notations, in some letter case, padded with whitespace, and   *)
(* optionally damaged by one edit (a deleted, inserted or replaced         *)
(* character, a missing last group or an extra group).                     *)
(***************************************************************************)
MaxPad == 1

LogicalSamples ==
    { <<170, 187, 204, 221, 238, 255>>,      \* AA:BB:CC:DD:EE:FF
      <<0, 26, 43, 60, 77, 94>> }            \* 00:1A:2B:3C:4D:5E

Notations == {"colon", "dash", "dot"}
Casings == {"upper", "lower", "mixed"}
EditChars == {"0", "G", ":", "-", ".", " "}

Hex2(b, casing) ==
    <<(IF casing = "lower" THEN HexDigitsLower ELSE HexDigitsUpper)[(b \div 16) + 1],
      (IF casing = "upper" THEN HexDigitsUpper ELSE HexDigitsLower)[(b % 16) + 1]>>

Render(logical, notation, casing) ==
    LET pairs == [i \in 1..6 |-> Hex2(logical[i], casing)] IN
    IF notation = "colon" THEN Join(pairs, ":")
    ELSE IF notation = "dash" THEN Join(pairs, "-")
    ELSE Join(<<pairs[1] \o pairs[2], pairs[3] \o pairs[4], pairs[5] \o pairs[6]>>, ".")

NoEdit == [kind |-> "none"]

Edits(n) ==
    {NoEdit, [kind |-> "less"], [kind |-> "more"]}
    \cup { [kind |-> "del", at |-> p] : p \in 1..n }
    \cup { [kind |-> "ins", at |-> p, ch |-> c] : p \in 0..n, c \in EditChars }
    \cup { [kind |-> "rep", at |-> p, ch |-> c] : p \in 1..n, c \in EditChars }

\* length of the last group of a text together with its separator
LastGroup(body) == IF \E k \in 1..Len(body) : body[k] = "." THEN 5 ELSE 3

ApplyEdit(body, e) ==
    IF e.kind = "less" THEN SubSeq(body, 1, Len(body) - LastGroup(body))
    ELSE IF e.kind = "more"
    THEN body \o SubSeq(body, Len(body) - LastGroup(body) + 1, Len(body))
    ELSE IF e.kind = "del" THEN SubSeq(body, 1, e.at - 1) \o SubSeq(body, e.at + 1, Len(body))
    ELSE IF e.kind = "ins"
    THEN SubSeq(body, 1, e.at) \o <<e.ch>> \o SubSeq(body, e.at + 1, Len(body))
    ELSE IF e.kind = "rep" THEN [k \in 1..Len(body) |-> IF k = e.at THEN e.ch ELSE body[k]]
    ELSE body

Pad(n, c) == [k \in 1..n |-> c]

TextOf(s) ==
    Pad(s.padL, " ") \o ApplyEdit(Render(s.logical, s.notation, s.casing), s.edit)
    \o Pad(s.padR, "\t")

Sources ==
    UNION { { [logical |-> l, notation |-> n, casing |-> cs,
               padL |-> pl, padR |-> pr, edit |-> e] :
              e \in Edits(Len(Render(l, n, cs))) } :
            l \in LogicalSamples, n \in Notations, cs \in Casings,
            pl \in 0..MaxPad, pr \in 0..MaxPad }

ByteSamples == {0, 18, 255}

(***************************************************************************)
(* The MAC text operations applied to one input                            *)
(***************************************************************************)
Nil == [nil |-> TRUE]

\* the parts of the state a specification does not use stay at these values
SenderUnused == newIn = NotCalled /\ sender = Nil /\ newErr = NoErr /\ calls = <<>>
PacketUnused == pktIn = <<>> /\ packet = NotCalled
WebUnused == req = NotCalled /\ resp = NotCalled
ConfigUnused == cfgIn = NotCalled /\ cfg = NotCalled
StoreUnused == devices = <<>> /\ disk = Nil /\ lastOp = NotCalled
ARPUnused == arpFile = NotCalled /\ arpResult = NotCalled
LockUnused == mu = NotCalled /\ threads = <<>> /\ history = <<>>
APIUnused == importBuild = "" /\ inflight = <<>>
LogUnused == logger = NotCalled /\ logDir = NotCalled /\ cleanups = <<>>
ExtUnused == ARPUnused /\ LockUnused /\ APIUnused /\ LogUnused
AppUnused == WebUnused /\ ConfigUnused /\ StoreUnused /\ ExtUnused
MACUnused ==
    /\ src = NoEdit
    /\ mac = <<>>
    /\ parsed = NotCalled
    /\ validated = NotCalled
    /\ normalized = NotCalled

InitMAC ==
    /\ src \in Sources
    /\ mac = TextOf(src)
    /\ parsed = NotCalled
    /\ validated = NotCalled
    /\ normalized = NotCalled
    /\ PacketUnused
    /\ SenderUnused
    /\ AppUnused

CallParseMAC ==
    /\ ~parsed.called
    /\ parsed' = parseMAC(mac)
    /\ UNCHANGED <<src, mac, validated, normalized, pktVars, sndVars, appVars>>

CallValidateMAC ==
    /\ ~validated.called
    /\ validated' = ValidateMAC(mac)
    /\ UNCHANGED <<src, mac, parsed, normalized, pktVars, sndVars, appVars>>

CallNormalizeMAC ==
    /\ ~normalized.called
    /\ normalized' = NormalizeMAC(mac)
    /\ UNCHANGED <<src, mac, parsed, validated, pktVars, sndVars, appVars>>

NextMAC == CallParseMAC \/ CallValidateMAC \/ CallNormalizeMAC

SpecMAC == InitMAC /\ [][NextMAC]_vars

(***************************************************************************)
(* constructMagicPacket applied to one 6-byte input                        *)
(***************************************************************************)
InitPacket ==
    /\ pktIn \in [1..6 -> ByteSamples]
    /\ packet = NotCalled
    /\ MACUnused
    /\ AppUnused
    /\ SenderUnused

CallConstructMagicPacket ==
    /\ ~packet.called
    /\ packet' = [called |-> TRUE, bytes |-> constructMagicPacket(pktIn)]
    /\ UNCHANGED <<pktIn, macVars, sndVars, appVars>>

NextPacket == CallConstructMagicPacket

SpecPacket == InitPacket /\ [][NextPacket]_vars

(***************************************************************************)
(* package wol: WOLSender                                                  *)
(***************************************************************************)
\* "255.255.255.255"
DefaultBroadcast ==
    <<"2","5","5",".","2","5","5",".","2","5","5",".","2","5","5">>

WOLPort == 9
SleepMillis == 10
IPv4zero == <<0, 0, 0, 0>>

InvalidBroadcast(text) == [kind |-> "invalid broadcast address", text |-> text]

\* variant: an empty broadcast is not replaced by the default
NewSender_NoDefault(iface, broadcast) ==
    IF ~ParseIP(broadcast).ok
    THEN [sender |-> Nil, err |-> InvalidBroadcast(broadcast)]
    ELSE [sender |-> [iface |-> iface, broadcast |-> broadcast], err |-> NoErr]

NewSender(iface, broadcast) ==
    LET b == IF broadcast = <<>> THEN DefaultBroadcast ELSE broadcast IN
    IF ~ParseIP(b).ok
    THEN [sender |-> Nil, err |-> InvalidBroadcast(b)]
    ELSE [sender |-> [iface |-> iface, broadcast |-> b], err |-> NoErr]

(***************************************************************************)
(* Inputs of the sender: broadcast texts (with the validity an IP parser   *)
(* must give them), interface names, MAC texts, repeat counts, and the     *)
(* address lists an interface can report.                                  *)
(***************************************************************************)
MaxCount == 3
MaxAddrs == 2

BroadcastSamples ==
    { [text |-> <<>>, valid |-> FALSE],
      [text |-> DefaultBroadcast, valid |-> TRUE],
      [text |-> <<"1","9","2",".","1","6","8",".","1",".","2","5","5">>, valid |-> TRUE],
      [text |-> <<"f","f","0","2",":",":","1">>, valid |-> TRUE],
      [text |-> <<"i","n","v","a","l","i","d">>, valid |-> FALSE],
      [text |-> <<"n","o","t","-","a","n","-","i","p">>, valid |-> FALSE],
      [text |-> <<"1","9","2",".","1","6","8",".","1",".","2","5","6">>, valid |-> FALSE],
      [text |-> <<"1","9","2",".","1","6","8",".","1">>, valid |-> FALSE] }

IfaceSamples == {"", "eth0", "wlan0"}

SendSources ==
    { [logical |-> <<170, 187, 204, 221, 238, 255>>, notation |-> "colon",
       casing |-> "upper", padL |-> 0, padR |-> 0, edit |-> NoEdit],
      [logical |-> <<0, 26, 43, 60, 77, 94>>, notation |-> "dot",
       casing |-> "lower", padL |-> 1, padR |-> 0, edit |-> NoEdit],
      [logical |-> <<170, 187, 204, 221, 238, 255>>, notation |-> "colon",
       casing |-> "upper", padL |-> 0, padR |-> 0, edit |-> [kind |-> "del", at |-> 17]],
      [logical |-> <<0, 26, 43, 60, 77, 94>>, notation |-> "dash",
       casing |-> "upper", padL |-> 0, padR |-> 0,
       edit |-> [kind |-> "rep", at |-> 1, ch |-> "G"]] }

MacSamples == { TextOf(s) : s \in SendSources } \cup {<<>>}
CountSamples == (-1)..MaxCount

\* addresses an interface may carry (Interface.Addrs yields *net.IPNet values;
\* an IPv4 address comes in the 4-byte or in the 16-byte form), each with what
\* it is: 192.168.1.10, 10.0.0.5, 127.0.0.1, fe80::1 and ::1
AddrSamples ==
    { [type |-> "IPNet", ip |-> <<192, 168, 1, 10>>, v4 |-> TRUE, loopback |-> FALSE],
      [type |-> "IPNet", ip |-> <<0, 0, 0, 0, 0, 0, 0, 0, 0, 0, 255, 255, 10, 0, 0, 5>>,
       v4 |-> TRUE, loopback |-> FALSE],
      [type |-> "IPNet", ip |-> <<0, 0, 0, 0, 0, 0, 0, 0, 0, 0, 255, 255, 127, 0, 0, 1>>,
       v4 |-> TRUE, loopback |-> TRUE],
      [type |-> "IPNet", ip |-> <<254, 128, 0, 0, 0, 0, 0, 0, 0, 0, 0, 0, 0, 0, 0, 1>>,
       v4 |-> FALSE, loopback |-> FALSE],
      [type |-> "IPNet", ip |-> <<0, 0, 0, 0, 0, 0, 0, 0, 0, 0, 0, 0, 0, 0, 0, 1>>,
       v4 |-> FALSE, loopback |-> TRUE] }

AddrLists == UNION { [1..n -> AddrSamples] : n \in 0..MaxAddrs }

\* net.IP.To4() != nil
To4NotNil(ip) ==
    \/ Len(ip) = 4
    \/ Len(ip) = 16 /\ SubSeq(ip, 1, 12) = V4InV6Prefix

\* net.IP.IsLoopback()
IsLoopback(ip) ==
    IF To4NotNil(ip) THEN ip[Len(ip) - 3] = 127
    ELSE ip = Zeros(15) \o <<1>>

RECURSIVE firstUsable_AllowLoopback(_, _)
\* variant: loopback addresses are not skipped
firstUsable_AllowLoopback(addrs, k) ==
    IF k > Len(addrs) THEN <<>>
    ELSE IF addrs[k].type = "IPNet" /\ To4NotNil(addrs[k].ip)
    THEN addrs[k].ip
    ELSE firstUsable_AllowLoopback(addrs, k + 1)

RECURSIVE firstUsable(_, _)
\* the address-selection loop of sendPacket; <<>> stands for a nil localIP
firstUsable(addrs, k) ==
    IF k > Len(addrs) THEN <<>>
    ELSE IF addrs[k].type = "IPNet" /\ To4NotNil(addrs[k].ip) /\ ~IsLoopback(addrs[k].ip)
    THEN addrs[k].ip
    ELSE firstUsable(addrs, k + 1)

IdleCall ==
    [pc |-> "idle", op |-> "", mac |-> <<>>, count |-> 0, macBytes |-> <<>>,
     magicPacket |-> <<>>, i |-> 0, addrs |-> NotCalled, localIP |-> <<>>,
     conn |-> Nil,
     sendErr |-> NoErr, err |-> NoErr, trace |-> <<>>]

Callers == DOMAIN calls

\* the call frame of caller c with some fields changed
With(c, changes) ==
    [calls EXCEPT ![c] = [f \in DOMAIN calls[c] |->
        IF f \in DOMAIN changes THEN changes[f] ELSE calls[c][f]]]

\* SendRepeat returns e to its caller
Returned(c, e) ==
    With(c, [pc |-> "done", err |-> e])

Logged(c, event) == Append(calls[c].trace, event)

Init ==
    /\ MACUnused
    /\ AppUnused
    /\ PacketUnused
    /\ newIn = NotCalled
    /\ sender = Nil
    /\ newErr = NoErr
    /\ calls = [c \in {1} |-> IdleCall]

CallNewSender ==
    /\ ~newIn.called
    /\ \E iface \in IfaceSamples, b \in BroadcastSamples :
          LET r == NewSender(iface, b.text) IN
          /\ newIn' = [called |-> TRUE, iface |-> iface, broadcast |-> b.text]
          /\ sender' = r.sender
          /\ newErr' = r.err
    /\ UNCHANGED <<macVars, pktVars, calls, appVars>>

\* variant: Send repeats the packet twice
Send_Twice(c) ==
    /\ sender # Nil
    /\ calls[c].pc = "idle"
    /\ \E m \in MacSamples :
          calls' = [calls EXCEPT ![c] =
                       [IdleCall EXCEPT !.pc = "parseMAC", !.op = "Send",
                                        !.mac = m, !.count = 2]]
    /\ UNCHANGED <<macVars, pktVars, newIn, sender, newErr, appVars>>

\* Send(mac) is SendRepeat(mac, 1)
Send(c) ==
    /\ sender # Nil
    /\ calls[c].pc = "idle"
    /\ \E m \in MacSamples :
          calls' = [calls EXCEPT ![c] =
                       [IdleCall EXCEPT !.pc = "parseMAC", !.op = "Send",
                                        !.mac = m, !.count = 1]]
    /\ UNCHANGED <<macVars, pktVars, newIn, sender, newErr, appVars>>

SendRepeat(c) ==
    /\ sender # Nil
    /\ calls[c].pc = "idle"
    /\ \E m \in MacSamples, n \in CountSamples :
          calls' = [calls EXCEPT ![c] =
                       [IdleCall EXCEPT !.pc = "parseMAC", !.op = "SendRepeat",
                                        !.mac = m, !.count = n]]
    /\ UNCHANGED <<macVars, pktVars, newIn, sender, newErr, appVars>>

\* variant: the error of parseMAC is not checked
ParseMACStep_IgnoreError(c) ==
    /\ calls[c].pc = "parseMAC"
    /\ LET p == parseMAC(calls[c].mac) IN
       calls' = With(c, [pc |-> "loop", macBytes |-> p.bytes,
                         magicPacket |-> constructMagicPacket(p.bytes), i |-> 0])
    /\ UNCHANGED <<macVars, pktVars, newIn, sender, newErr, appVars>>

\* SendRepeat up to the loop: parse the MAC, build the packet
ParseMACStep(c) ==
    /\ calls[c].pc = "parseMAC"
    /\ LET p == parseMAC(calls[c].mac) IN
       IF p.err # NoErr
       THEN calls' = Returned(c, p.err)
       ELSE calls' = With(c, [pc |-> "loop", macBytes |-> p.bytes,
                              magicPacket |-> constructMagicPacket(p.bytes), i |-> 0])
    /\ UNCHANGED <<macVars, pktVars, newIn, sender, newErr, appVars>>

\* variant: the loop body runs once before the count is looked at
LoopStep_AtLeastOnce(c) ==
    /\ calls[c].pc = "loop"
    /\ IF calls[c].i < calls[c].count \/ calls[c].i = 0
       THEN IF sender.iface # ""
            THEN calls' = With(c, [pc |-> "InterfaceByName"])
            ELSE calls' = With(c, [pc |-> "ListenUDP", localIP |-> IPv4zero])
       ELSE calls' = Returned(c, NoErr)
    /\ UNCHANGED <<macVars, pktVars, newIn, sender, newErr, appVars>>

\* the loop condition of SendRepeat and the entry of sendPacket
LoopStep(c) ==
    /\ calls[c].pc = "loop"
    /\ IF calls[c].i < calls[c].count
       THEN IF sender.iface # ""
            THEN calls' = With(c, [pc |-> "InterfaceByName"])
            ELSE calls' = With(c, [pc |-> "ListenUDP", localIP |-> IPv4zero])
       ELSE calls' = Returned(c, NoErr)
    /\ UNCHANGED <<macVars, pktVars, newIn, sender, newErr, appVars>>

\* variant: a failed interface lookup makes sendPacket return nil
InterfaceByName_ReturnsNil(c) ==
    /\ calls[c].pc = "InterfaceByName"
    /\ \E found \in BOOLEAN :
          LET t == Logged(c, [ev |-> "lookup", name |-> sender.iface]) IN
          IF found
          THEN calls' = With(c, [pc |-> "Addrs", trace |-> t])
          ELSE calls' = [Returned(c, NoErr) EXCEPT ![c].trace = t]
    /\ UNCHANGED <<macVars, pktVars, newIn, sender, newErr, appVars>>

InterfaceByName(c) ==
    /\ calls[c].pc = "InterfaceByName"
    /\ \E found \in BOOLEAN :
          LET t == Logged(c, [ev |-> "lookup", name |-> sender.iface]) IN
          IF found
          THEN calls' = With(c, [pc |-> "Addrs", trace |-> t])
          ELSE calls' = [Returned(c, [kind |-> "interface not found",
                                      iface |-> sender.iface])
                            EXCEPT ![c].trace = t]
    /\ UNCHANGED <<macVars, pktVars, newIn, sender, newErr, appVars>>

\* iface.Addrs() and the selection of the local address
Addrs(c) ==
    /\ calls[c].pc = "Addrs"
    /\ LET t == Logged(c, [ev |-> "addrs", name |-> sender.iface]) IN
       \/ calls' = [Returned(c, [kind |-> "failed to get interface addresses"])
                       EXCEPT ![c].trace = t]
       \/ \E addrs \in AddrLists :
             LET localIP == firstUsable(addrs, 1) IN
             IF localIP = <<>>
             THEN calls' = [Returned(c, [kind |-> "no suitable IPv4 address found",
                                         iface |-> sender.iface])
                               EXCEPT ![c].trace = t,
                                      ![c].addrs = [called |-> TRUE, list |-> addrs]]
             ELSE calls' = With(c, [pc |-> "ListenUDP", localIP |-> localIP,
                                    addrs |-> [called |-> TRUE, list |-> addrs],
                                    trace |-> t])
    /\ UNCHANGED <<macVars, pktVars, newIn, sender, newErr, appVars>>

ListenUDP(c) ==
    /\ calls[c].pc = "ListenUDP"
    /\ \E ok \in BOOLEAN :
          IF ok
          THEN calls' = With(c, [pc |-> "WriteToUDP",
                                 conn |-> [local |-> calls[c].localIP, port |-> 0],
                                 trace |-> Logged(c, [ev |-> "open",
                                                      local |-> calls[c].localIP,
                                                      port |-> 0])])
          ELSE calls' = Returned(c, [kind |-> "failed to create UDP socket",
                                     iface |-> sender.iface])
    /\ UNCHANGED <<macVars, pktVars, newIn, sender, newErr, appVars>>

\* variant: the packet is kept in one buffer shared by all calls, which holds
\* the packet of the highest-numbered caller that has built one
WriteToUDP_SharedBuffer(c) ==
    /\ calls[c].pc = "WriteToUDP"
    /\ \E ok \in BOOLEAN :
          LET d == CHOOSE d \in DOMAIN calls :
                      /\ calls[d].magicPacket # <<>>
                      /\ \A e \in DOMAIN calls : calls[e].magicPacket # <<>> => e <= d
          IN
          calls' = With(c, [pc |-> "Close",
                            sendErr |-> IF ok THEN NoErr
                                        ELSE [kind |-> "failed to send magic packet"],
                            trace |-> Logged(c, [ev |-> "write", ok |-> ok,
                                                 payload |-> calls[d].magicPacket,
                                                 dstIP |-> ParseIP(sender.broadcast).ip,
                                                 dstPort |-> WOLPort])])
    /\ UNCHANGED <<macVars, pktVars, newIn, sender, newErr, appVars>>

\* variant: a failed write returns at once, with no deferred Close
WriteToUDP_NoCloseOnError(c) ==
    /\ calls[c].pc = "WriteToUDP"
    /\ \E ok \in BOOLEAN :
          LET t == Logged(c, [ev |-> "write", ok |-> ok,
                              payload |-> calls[c].magicPacket,
                              dstIP |-> ParseIP(sender.broadcast).ip,
                              dstPort |-> WOLPort])
          IN  IF ok
              THEN calls' = With(c, [pc |-> "Close", sendErr |-> NoErr, trace |-> t])
              ELSE calls' = [Returned(c, [kind |-> "failed to send magic packet"])
                                EXCEPT ![c].trace = t]
    /\ UNCHANGED <<macVars, pktVars, newIn, sender, newErr, appVars>>

\* variant: the datagram goes to port 7
WriteToUDP_Port7(c) ==
    /\ calls[c].pc = "WriteToUDP"
    /\ \E ok \in BOOLEAN :
          calls' = With(c, [pc |-> "Close",
                            sendErr |-> IF ok THEN NoErr
                                        ELSE [kind |-> "failed to send magic packet"],
                            trace |-> Logged(c, [ev |-> "write", ok |-> ok,
                                                 payload |-> calls[c].magicPacket,
                                                 dstIP |-> ParseIP(sender.broadcast).ip,
                                                 dstPort |-> 7])])
    /\ UNCHANGED <<macVars, pktVars, newIn, sender, newErr, appVars>>

WriteToUDP(c) ==
    /\ calls[c].pc = "WriteToUDP"
    /\ \E ok \in BOOLEAN :
          calls' = With(c, [pc |-> "Close",
                            sendErr |-> IF ok THEN NoErr
                                        ELSE [kind |-> "failed to send magic packet"],
                            trace |-> Logged(c, [ev |-> "write", ok |-> ok,
                                                 payload |-> calls[c].magicPacket,
                                                 dstIP |-> ParseIP(sender.broadcast).ip,
                                                 dstPort |-> WOLPort])])
    /\ UNCHANGED <<macVars, pktVars, newIn, sender, newErr, appVars>>

\* variant: the error of sendPacket is dropped and the loop goes on
Close_SwallowError(c) ==
    /\ calls[c].pc = "Close"
    /\ LET t == Logged(c, [ev |-> "close"]) IN
       IF calls[c].i < calls[c].count - 1
       THEN calls' = With(c, [pc |-> "Sleep", conn |-> Nil, addrs |-> NotCalled,
                              sendErr |-> NoErr, trace |-> t])
       ELSE calls' = With(c, [pc |-> "loop", conn |-> Nil, addrs |-> NotCalled,
                              sendErr |-> NoErr, trace |-> t, i |-> calls[c].i + 1])
    /\ UNCHANGED <<macVars, pktVars, newIn, sender, newErr, appVars>>

\* variant: the delay is taken after every send, the last one included
Close_SleepAfterLast(c) ==
    /\ calls[c].pc = "Close"
    /\ LET t == Logged(c, [ev |-> "close"]) IN
       IF calls[c].sendErr # NoErr
       THEN calls' = [Returned(c, calls[c].sendErr)
                         EXCEPT ![c].trace = t, ![c].conn = Nil]
       ELSE calls' = With(c, [pc |-> "Sleep", conn |-> Nil, addrs |-> NotCalled,
                              trace |-> t])
    /\ UNCHANGED <<macVars, pktVars, newIn, sender, newErr, appVars>>

\* the deferred conn.Close(), the return of sendPacket and the test i < count-1
Close(c) ==
    /\ calls[c].pc = "Close"
    /\ LET t == Logged(c, [ev |-> "close"]) IN
       IF calls[c].sendErr # NoErr
       THEN calls' = [Returned(c, calls[c].sendErr)
                         EXCEPT ![c].trace = t, ![c].conn = Nil]
       ELSE IF calls[c].i < calls[c].count - 1
       THEN calls' = With(c, [pc |-> "Sleep", conn |-> Nil, addrs |-> NotCalled,
                              trace |-> t])
       ELSE calls' = With(c, [pc |-> "loop", conn |-> Nil, addrs |-> NotCalled,
                              trace |-> t, i |-> calls[c].i + 1])
    /\ UNCHANGED <<macVars, pktVars, newIn, sender, newErr, appVars>>

\* time.Sleep(10 * time.Millisecond) and the loop increment
Sleep(c) ==
    /\ calls[c].pc = "Sleep"
    /\ calls' = With(c, [pc |-> "loop", i |-> calls[c].i + 1,
                         trace |-> Logged(c, [ev |-> "sleep", ms |-> SleepMillis])])
    /\ UNCHANGED <<macVars, pktVars, newIn, sender, newErr, appVars>>

\* the caller takes the result; the call frame is gone
Return(c) ==
    /\ calls[c].pc = "done"
    /\ calls' = [calls EXCEPT ![c] = IdleCall]
    /\ UNCHANGED <<macVars, pktVars, newIn, sender, newErr, appVars>>

Next ==
    \/ CallNewSender
    \/ \E c \in Callers :
          \/ Send(c)
          \/ SendRepeat(c)
          \/ ParseMACStep(c)
          \/ LoopStep(c)
          \/ InterfaceByName(c)
          \/ Addrs(c)
          \/ ListenUDP(c)
          \/ WriteToUDP(c)
          \/ Close(c)
          \/ Sleep(c)
          \/ Return(c)

Spec == Init /\ [][Next]_vars

(***************************************************************************)
(* Several callers using one sender at the same time.  The sender has no   *)
(* interface configured; each caller runs Send / SendRepeat calls, one     *)
(* after another, interleaved step by step with the other callers.         *)
(***************************************************************************)
ConcurrentCallers == {1, 2}

ConcurrentBroadcasts ==
    { <<>>, <<"1","9","2",".","1","6","8",".","1",".","2","5","5">> }

InitConcurrent ==
    /\ MACUnused
    /\ AppUnused
    /\ PacketUnused
    /\ \E b \in ConcurrentBroadcasts :
          /\ newIn = [called |-> TRUE, iface |-> "", broadcast |-> b]
          /\ sender = NewSender("", b).sender
          /\ newErr = NewSender("", b).err
    /\ calls = [c \in ConcurrentCallers |-> IdleCall]

NextConcurrent ==
    \E c \in Callers :
        \/ Send(c)
        \/ SendRepeat(c)
        \/ ParseMACStep(c)
        \/ LoopStep(c)
        \/ ListenUDP(c)
        \/ WriteToUDP(c)
        \/ Close(c)
        \/ Sleep(c)
        \/ Return(c)

SpecConcurrent == InitConcurrent /\ [][NextConcurrent]_vars

(***************************************************************************)
(* package web: the wake endpoint (Handler.wakeHandler).  The handler      *)
(* holds one constructed sender; a request is a method and a body, which   *)
(* either decodes as JSON to a MAC text (an absent "mac" member decodes    *)
(* to the empty text) or does not decode.                                  *)
(***************************************************************************)
StatusOK == 200
StatusBadRequest == 400
StatusMethodNotAllowed == 405
StatusInternalServerError == 500
WakeRepeat == 3

Methods == {"GET", "POST", "PUT", "DELETE"}
WakeIfaces == {"", "eth0"}

\* request bodies: the MAC member of a decodable body, with what the text is
WakeBodies ==
    { [json |-> FALSE, mac |-> <<>>, valid |-> FALSE] }
    \cup { [json |-> TRUE, mac |-> TextOf(s), valid |-> s.edit = NoEdit] :
              s \in SendSources }
    \cup { [json |-> TRUE, mac |-> <<>>, valid |-> FALSE] }

\* respondWithStatus(Response{Success: false, Error: message}, status)
respondError(message, status) ==
    [called |-> TRUE, status |-> status, success |-> FALSE, text |-> message]

\* respond(data): 200 when data.Success, 400 otherwise
respond(success, message) ==
    [called |-> TRUE, status |-> IF success THEN StatusOK ELSE StatusBadRequest,
     success |-> success, text |-> message]

InitWake ==
    /\ MACUnused
    /\ PacketUnused
    /\ \E iface \in WakeIfaces :
          /\ newIn = [called |-> TRUE, iface |-> iface, broadcast |-> <<>>]
          /\ sender = NewSender(iface, <<>>).sender
          /\ newErr = NewSender(iface, <<>>).err
    /\ calls = [c \in {1} |-> IdleCall]
    /\ req = NotCalled
    /\ resp = NotCalled
    /\ ConfigUnused
    /\ StoreUnused
    /\ ExtUnused

\* variant: the MAC is handed to SendRepeat without ValidateMAC
wakeHandler_NoValidate ==
    /\ ~req.called
    /\ \E m \in Methods, b \in WakeBodies :
          /\ req' = [called |-> TRUE, method |-> m, body |-> b]
          /\ IF m # "POST"
             THEN /\ resp' = respondError("Method not allowed", StatusMethodNotAllowed)
                  /\ UNCHANGED calls
             ELSE IF ~b.json
             THEN /\ resp' = respondError("Invalid request body", StatusBadRequest)
                  /\ UNCHANGED calls
             ELSE /\ calls' = [calls EXCEPT ![1] =
                                  [IdleCall EXCEPT !.pc = "parseMAC", !.op = "SendRepeat",
                                                   !.mac = b.mac, !.count = WakeRepeat]]
                  /\ UNCHANGED resp
    /\ UNCHANGED <<macVars, pktVars, newIn, sender, newErr, cfgVars, storeVars, extVars>>

\* wakeHandler up to the call of h.wol.SendRepeat(req.MAC, 3)
wakeHandler ==
    /\ ~req.called
    /\ \E m \in Methods, b \in WakeBodies :
          /\ req' = [called |-> TRUE, method |-> m, body |-> b]
          /\ IF m # "POST"
             THEN /\ resp' = respondError("Method not allowed", StatusMethodNotAllowed)
                  /\ UNCHANGED calls
             ELSE IF ~b.json
             THEN /\ resp' = respondError("Invalid request body", StatusBadRequest)
                  /\ UNCHANGED calls
             ELSE IF ValidateMAC(b.mac).err # NoErr
             THEN /\ resp' = respondError(ValidateMAC(b.mac).err, StatusBadRequest)
                  /\ UNCHANGED calls
             ELSE /\ calls' = [calls EXCEPT ![1] =
                                  [IdleCall EXCEPT !.pc = "parseMAC", !.op = "SendRepeat",
                                                   !.mac = b.mac, !.count = WakeRepeat]]
                  /\ UNCHANGED resp
    /\ UNCHANGED <<macVars, pktVars, newIn, sender, newErr, cfgVars, storeVars, extVars>>

\* wakeHandler after SendRepeat returned: 500 naming the cause, or success
wakeHandlerRespond ==
    /\ req.called
    /\ ~resp.called
    /\ calls[1].pc = "done"
    /\ resp' = IF calls[1].err # NoErr
               THEN respondError([kind |-> "Failed to send WOL packet",
                                  cause |-> calls[1].err],
                                 StatusInternalServerError)
               ELSE respond(TRUE, [kind |-> "WOL packet sent to", mac |-> req.body.mac])
    /\ UNCHANGED <<macVars, pktVars, sndVars, req, cfgVars, storeVars, extVars>>

NextWake ==
    \/ wakeHandler
    \/ ParseMACStep(1)
    \/ LoopStep(1)
    \/ InterfaceByName(1)
    \/ Addrs(1)
    \/ ListenUDP(1)
    \/ WriteToUDP(1)
    \/ Close(1)
    \/ Sleep(1)
    \/ wakeHandlerRespond

SpecWake == InitWake /\ [][NextWake]_vars

(***************************************************************************)
(* Configuration: package config (DefaultConfig, Load, applyDefaults) and  *)
(* the server and wake commands of package main (loadConfig, runServer,    *)
(* runWake).  A configuration is a function from setting names to values;  *)
(* a source holds for each setting either Absent or a supplied value.      *)
(***************************************************************************)
Settings ==
    { "server.listen", "server.data", "wake.iface", "wake.broadcast",
      "log.file", "log.level", "log.max_size", "log.max_backups", "log.max_age" }

NumericSettings == { "log.max_size", "log.max_backups", "log.max_age" }

Absent == [has |-> FALSE]
Supplied(v) == [has |-> TRUE, val |-> v]

\* config.DefaultConfig (package main's defaultConfig holds the same values)
DefaultConfig ==
    [s \in Settings |->
        CASE s = "server.listen" -> "127.0.0.1:9000"
          [] s = "server.data" -> "/data/wolgate.json"
          [] s = "wake.iface" -> ""
          [] s = "wake.broadcast" -> "255.255.255.255"
          [] s = "log.file" -> "/tmp/wolgate.log"
          [] s = "log.level" -> "info"
          [] s = "log.max_size" -> 10
          [] s = "log.max_backups" -> 3
          [] s = "log.max_age" -> 7]

\* the zero value of a setting's type
ZeroValue(s) == IF s \in NumericSettings THEN 0 ELSE ""

\* json.Unmarshal(data, cfg): members present in the file overwrite cfg
Unmarshal(file, c) ==
    [s \in Settings |-> IF file[s].has THEN file[s].val ELSE c[s]]

\* config.applyDefaults: zero values become the defaults (Wake.Iface is left)
applyDefaults(c) ==
    [s \in Settings |->
        IF s # "wake.iface" /\ c[s] = ZeroValue(s) THEN DefaultConfig[s] ELSE c[s]]

\* config.Load: a missing file gives the defaults
Load(file) ==
    IF ~file.exists THEN DefaultConfig
    ELSE applyDefaults(Unmarshal(file.members, DefaultConfig))

\* main.loadConfig: config.Load(configFile), copied field by field
loadConfig(file) == [s \in Settings |-> Load(file)[s]]

\* the flags of each command: flag name -> the setting it is meant for
GlobalFlags ==
    [ f \in {"log", "log-level", "log-max-size", "log-max-backups", "log-max-age"} |->
        CASE f = "log" -> "log.file"
          [] f = "log-level" -> "log.level"
          [] f = "log-max-size" -> "log.max_size"
          [] f = "log-max-backups" -> "log.max_backups"
          [] f = "log-max-age" -> "log.max_age" ]

ServerFlags ==
    [ f \in {"listen", "data", "iface"} |->
        CASE f = "listen" -> "server.listen"
          [] f = "data" -> "server.data"
          [] f = "iface" -> "wake.iface" ]

WakeFlags ==
    [ f \in {"iface", "bcast"} |->
        CASE f = "iface" -> "wake.iface"
          [] f = "bcast" -> "wake.broadcast" ]

Commands == {"server", "wake"}
CommandFlags(command) == IF command = "server" THEN ServerFlags ELSE WakeFlags
FlagNames(command) == DOMAIN GlobalFlags \cup DOMAIN CommandFlags(command)
FlagSetting(command, f) ==
    IF f \in DOMAIN CommandFlags(command) THEN CommandFlags(command)[f]
    ELSE GlobalFlags[f]

\* values each source may hold for a setting
FileValue(s) == IF s \in NumericSettings THEN 20 ELSE "from-file"
EnvValue(s) == IF s \in NumericSettings THEN 30 ELSE "from-env"
FlagValue(s) == IF s \in NumericSettings THEN 40 ELSE "from-flag"

\* a config file: missing, or a JSON object with one member (or none) set
ConfigFiles ==
    { [exists |-> FALSE], [exists |-> TRUE, members |-> [s \in Settings |-> Absent]] }
    \cup UNION { { [exists |-> TRUE,
                    members |-> [s \in Settings |->
                                    IF s = t THEN Supplied(v) ELSE Absent]] :
                      v \in {ZeroValue(t), FileValue(t)} } : t \in Settings }

\* an environment: WOLGATE_* variables, at most one set
Environments ==
    { [s \in Settings |-> Absent] }
    \cup { [s \in Settings |-> IF s = t THEN Supplied(EnvValue(t)) ELSE Absent] :
              t \in Settings }

\* a command line: at most one flag given (a flag left out holds its zero
\* default, which is what Absent stands for)
CommandLines(command) ==
    { [f \in FlagNames(command) |-> Absent] }
    \cup { [f \in FlagNames(command) |->
               IF f = g THEN Supplied(FlagValue(FlagSetting(command, g)))
               ELSE Absent] :
              g \in FlagNames(command) }

InitConfig ==
    /\ MACUnused
    /\ PacketUnused
    /\ SenderUnused
    /\ WebUnused
    /\ \E command \in Commands, file \in ConfigFiles, env \in Environments :
       \E flags \in CommandLines(command) :
          cfgIn = [called |-> TRUE, command |-> command, file |-> file,
                   env |-> env, flags |-> flags]
    /\ cfg = NotCalled
    /\ StoreUnused
    /\ ExtUnused

\* "Apply command-line overrides": a given flag of the command replaces the
\* loaded value
Override(c, command, flags) ==
    [s \in Settings |->
        IF \E f \in DOMAIN CommandFlags(command) :
              CommandFlags(command)[f] = s /\ flags[f].has
        THEN flags[CHOOSE f \in DOMAIN CommandFlags(command) :
                      CommandFlags(command)[f] = s /\ flags[f].has].val
        ELSE c[s]]

\* runServer up to the configuration it starts the logger, store and sender with
runServer ==
    /\ cfgIn.called /\ cfgIn.command = "server"
    /\ ~cfg.called
    /\ cfg' = [called |-> TRUE,
               values |-> Override(loadConfig(cfgIn.file), "server", cfgIn.flags)]
    /\ UNCHANGED <<macVars, pktVars, sndVars, webVars, cfgIn, storeVars, extVars>>

\* runWake up to the configuration it starts the logger and sender with
runWake ==
    /\ cfgIn.called /\ cfgIn.command = "wake"
    /\ ~cfg.called
    /\ cfg' = [called |-> TRUE,
               values |-> Override(loadConfig(cfgIn.file), "wake", cfgIn.flags)]
    /\ UNCHANGED <<macVars, pktVars, sndVars, webVars, cfgIn, storeVars, extVars>>

NextConfig == runServer \/ runWake

SpecConfig == InitConfig /\ [][NextConfig]_vars

(***************************************************************************)
(* package store: the device store.  Each operation holds the store's      *)
(* mutex from entry to return, so it is one step.  The file holds the      *)
(* JSON encoding of the device list.  Writing the file may fail: before    *)
(* the file is opened (it stays as it was), or after it was truncated (it  *)
(* is left empty, or with the beginning of the new text).                  *)
(***************************************************************************)
MaxDevices == 3

StoreMACs == { "AA:BB:CC:DD:EE:01", "aa:bb:cc:dd:ee:01", "AA:BB:CC:DD:EE:02" }
StoreNames == { "pc", "nas" }

\* a device named "pc" has no IP and no group, one named "nas" has both
DeviceSamples ==
    { [name |-> n, mac |-> m,
       ip |-> IF n = "nas" THEN "192.168.1.20" ELSE "",
       group |-> IF n = "nas" THEN "lab" ELSE ""] :
         n \in StoreNames, m \in StoreMACs }

AlreadyExists(m) == [kind |-> "device already exists", mac |-> m]
NotFound(m) == [kind |-> "device not found", mac |-> m]
WriteFailed == [kind |-> "failed to write store file"]
ParseFailed == [kind |-> "failed to parse store file"]

\* variant: the group member is never written
MarshalDevice_NoGroup(d) ==
    [k \in {"name", "mac"} \cup (IF d.ip # "" THEN {"ip"} ELSE {}) |-> d[k]]

\* json.Marshal of one Device: ip and group are omitted when empty
MarshalDevice(d) ==
    [k \in {"name", "mac"} \cup (IF d.ip # "" THEN {"ip"} ELSE {})
                           \cup (IF d.group # "" THEN {"group"} ELSE {}) |-> d[k]]

\* json.Unmarshal of one object into a Device: absent members stay empty
UnmarshalDevice(o) ==
    [k \in {"name", "mac", "ip", "group"} |-> IF k \in DOMAIN o THEN o[k] ELSE ""]

\* json.MarshalIndent(s.devices): an array of objects, in order
MarshalIndent(devs) ==
    [kind |-> "json", objects |-> [i \in 1..Len(devs) |-> MarshalDevice(devs[i])]]

EmptyFile == [kind |-> "empty"]
PartialFile == [kind |-> "partial"]

\* what a write of the file can do
WriteOutcomes == {"ok", "unchanged", "truncated", "partial"}

\* Store.Load on a file: the devices read and the error returned
StoreLoad(file) ==
    IF file = Nil \/ file = EmptyFile THEN [devices |-> <<>>, err |-> NoErr]
    ELSE IF file = PartialFile THEN [devices |-> <<>>, err |-> ParseFailed]
    ELSE [devices |-> [i \in 1..Len(file.objects) |-> UnmarshalDevice(file.objects[i])],
          err |-> NoErr]

\* NewStore(path): a store with the devices of the file, or an error
NewStore(file) ==
    IF StoreLoad(file).err # NoErr
    THEN [store |-> Nil, err |-> StoreLoad(file).err]
    ELSE [store |-> [devices |-> StoreLoad(file).devices], err |-> NoErr]

HasMAC(devs, m) == \E i \in 1..Len(devs) : devs[i].mac = m

\* saveLocked: the file after the call and the error returned
saveLocked(devs, write) ==
    CASE write = "ok" -> [disk |-> MarshalIndent(devs), err |-> NoErr]
      [] write = "unchanged" -> [disk |-> disk, err |-> WriteFailed]
      [] write = "truncated" -> [disk |-> EmptyFile, err |-> WriteFailed]
      [] write = "partial" -> [disk |-> PartialFile, err |-> WriteFailed]

\* the index of the first stored device with MAC m
FirstWithMAC(devs, m) == CHOOSE i \in 1..Len(devs) :
    devs[i].mac = m /\ \A j \in 1..(i - 1) : devs[j].mac # m

\* Store.GetByMAC: a copy of the first device with the MAC, or an error
GetByMAC(devs, m) ==
    IF HasMAC(devs, m) THEN [device |-> devs[FirstWithMAC(devs, m)], err |-> NoErr]
    ELSE [device |-> Nil, err |-> NotFound(m)]

\* Store.Add on the list devs: the list and the file after the call, and
\* the error returned
StoreAdd(devs, device, write) ==
    IF HasMAC(devs, device.mac)
    THEN [devices |-> devs, disk |-> disk, err |-> AlreadyExists(device.mac)]
    ELSE LET appended == Append(devs, device)
             saved == saveLocked(appended, write) IN
         [devices |-> IF saved.err # NoErr
                      THEN SubSeq(appended, 1, Len(appended) - 1)
                      ELSE appended,
          disk |-> saved.disk, err |-> saved.err]

\* Store.Delete
StoreDelete(devs, m, write) ==
    IF ~HasMAC(devs, m)
    THEN [devices |-> devs, disk |-> disk, err |-> NotFound(m)]
    ELSE LET newDevices == SelectSeq(devs, LAMBDA d : d.mac # m)
             saved == saveLocked(newDevices, write) IN
         [devices |-> IF saved.err # NoErr THEN devs ELSE newDevices,
          disk |-> saved.disk, err |-> saved.err]

\* Store.Update: the first device with the MAC is replaced, keeping the
\* MAC; a failed save is returned without undoing the replacement
StoreUpdate(devs, m, updated, write) ==
    IF ~HasMAC(devs, m)
    THEN [devices |-> devs, disk |-> disk, err |-> NotFound(m)]
    ELSE LET replaced == [devs EXCEPT ![FirstWithMAC(devs, m)] =
                             [updated EXCEPT !.mac = m]]
             saved == saveLocked(replaced, write) IN
         [devices |-> replaced, disk |-> saved.disk, err |-> saved.err]

\* NewStore on a path with no file: an empty store
InitStore ==
    /\ MACUnused
    /\ PacketUnused
    /\ SenderUnused
    /\ WebUnused
    /\ ConfigUnused
    /\ ExtUnused
    /\ devices = <<>>
    /\ disk = Nil
    /\ lastOp = NotCalled

\* variant: Add does not look for the MAC among the stored devices
Add_NoDuplicateCheck(device, write) ==
    /\ Len(devices) < MaxDevices
    /\ LET appended == Append(devices, device)
           saved == saveLocked(appended, write) IN
       /\ devices' = IF saved.err # NoErr THEN SubSeq(appended, 1, Len(appended) - 1)
                     ELSE appended
       /\ disk' = saved.disk
       /\ lastOp' = [called |-> TRUE, op |-> "Add", mac |-> device.mac,
                     device |-> device, err |-> saved.err, before |-> devices]
    /\ UNCHANGED <<macVars, pktVars, sndVars, webVars, cfgVars, extVars>>

Add(device, write) ==
    /\ HasMAC(devices, device.mac) \/ Len(devices) < MaxDevices
    /\ LET r == StoreAdd(devices, device, write) IN
       /\ devices' = r.devices
       /\ disk' = r.disk
       /\ lastOp' = [called |-> TRUE, op |-> "Add", mac |-> device.mac,
                     device |-> device, err |-> r.err, before |-> devices]
    /\ UNCHANGED <<macVars, pktVars, sndVars, webVars, cfgVars, extVars>>

Delete(m, write) ==
    /\ LET r == StoreDelete(devices, m, write) IN
       /\ devices' = r.devices
       /\ disk' = r.disk
       /\ lastOp' = [called |-> TRUE, op |-> "Delete", mac |-> m,
                     device |-> Nil, err |-> r.err, before |-> devices]
    /\ UNCHANGED <<macVars, pktVars, sndVars, webVars, cfgVars, extVars>>

\* variant: Update stores the new record with the MAC it came with
Update_KeepsGivenMAC(m, updated, write) ==
    /\ IF ~HasMAC(devices, m)
       THEN /\ lastOp' = [called |-> TRUE, op |-> "Update", mac |-> m,
                          device |-> updated, err |-> NotFound(m), before |-> devices]
            /\ UNCHANGED <<devices, disk>>
       ELSE LET replaced == [devices EXCEPT ![FirstWithMAC(devices, m)] = updated]
                saved == saveLocked(replaced, write) IN
            /\ devices' = replaced
            /\ disk' = saved.disk
            /\ lastOp' = [called |-> TRUE, op |-> "Update", mac |-> m,
                          device |-> updated, err |-> saved.err, before |-> devices]
    /\ UNCHANGED <<macVars, pktVars, sndVars, webVars, cfgVars, extVars>>

Update(m, updated, write) ==
    /\ LET r == StoreUpdate(devices, m, updated, write) IN
       /\ devices' = r.devices
       /\ disk' = r.disk
       /\ lastOp' = [called |-> TRUE, op |-> "Update", mac |-> m,
                     device |-> updated, err |-> r.err, before |-> devices]
    /\ UNCHANGED <<macVars, pktVars, sndVars, webVars, cfgVars, extVars>>

NextStore ==
    \E write \in WriteOutcomes :
       \/ \E device \in DeviceSamples : Add(device, write)
       \/ \E m \in StoreMACs : Delete(m, write)
       \/ \E m \in StoreMACs, updated \in DeviceSamples : Update(m, updated, write)

SpecStore == InitStore /\ [][NextStore]_vars

(***************************************************************************)
(* package web: routing.  A path is its sequence of segments ("/" is the   *)
(* empty sequence); a ServeMux pattern ending in "/" matches every path it *)
(* is a prefix of, any other pattern only the equal path, and the longest  *)
(* matching pattern wins.                                                  *)
(***************************************************************************)
\* Handler.RegisterRoutes
RegisterRoutes ==
    { [pattern |-> <<>>, subtree |-> TRUE, handler |-> "indexHandler"],
      [pattern |-> <<"api", "list">>, subtree |-> FALSE, handler |-> "listHandler"],
      [pattern |-> <<"api", "add">>, subtree |-> FALSE, handler |-> "addHandler"],
      [pattern |-> <<"api", "delete">>, subtree |-> FALSE, handler |-> "deleteHandler"],
      [pattern |-> <<"api", "wake">>, subtree |-> FALSE, handler |-> "wakeHandler"],
      [pattern |-> <<"api", "import">>, subtree |-> FALSE, handler |-> "importHandler"] }

RouteMatches(route, path) ==
    IF route.subtree
    THEN Len(route.pattern) <= Len(path)
         /\ SubSeq(path, 1, Len(route.pattern)) = route.pattern
    ELSE route.pattern = path

\* http.ServeMux: the handler of the longest matching pattern
muxHandler(path) ==
    LET matching == { r \in RegisterRoutes : RouteMatches(r, path) }
        longest == CHOOSE r \in matching :
                      \A q \in matching : Len(q.pattern) <= Len(r.pattern)
    IN  IF matching = {} THEN "NotFound" ELSE longest.handler

StatusNotFound == 404

\* the methods each handler serves; every other method gets 405
HandlerMethods(handler) ==
    CASE handler = "listHandler" -> {"GET"}
      [] handler = "addHandler" -> {"POST"}
      [] handler = "deleteHandler" -> {"POST"}
      [] handler = "wakeHandler" -> {"POST"}
      [] handler = "importHandler" -> {"GET", "POST"}
      [] OTHER -> {}

RouteMethods == {"GET", "POST", "PUT", "DELETE", "PATCH"}

RoutePaths ==
    { <<>>, <<"api", "list">>, <<"api", "add">>, <<"api", "delete">>,
      <<"api", "wake">>, <<"api", "import">>,
      <<"api", "devices">>, <<"api", "devices", "1">>,
      <<"api", "devices", "AA:BB:CC:DD:EE:FF">>, <<"api", "wake", "1">>,
      <<"api", "wake", "AA:BB:CC:DD:EE:FF">>, <<"api", "arp">>,
      <<"api">>, <<"index.html">> }

InitRoutes ==
    /\ MACUnused
    /\ PacketUnused
    /\ SenderUnused
    /\ ConfigUnused
    /\ StoreUnused
    /\ ExtUnused
    /\ \E m \in RouteMethods, path \in RoutePaths :
          req = [called |-> TRUE, method |-> m, path |-> path]
    /\ resp = NotCalled

\* the server's mux dispatches the request; the response records which
\* operation the request reached, or the status it was refused with
ServeHTTP ==
    /\ req.called
    /\ ~resp.called
    /\ LET handler == muxHandler(req.path) IN
       resp' =
         IF handler = "indexHandler"
         THEN IF req.path # <<>>
              THEN [called |-> TRUE, handler |-> handler, status |-> StatusNotFound,
                    reached |-> "none"]
              ELSE [called |-> TRUE, handler |-> handler, status |-> StatusOK,
                    reached |-> "page"]
         ELSE IF req.method \notin HandlerMethods(handler)
         THEN [called |-> TRUE, handler |-> handler,
               status |-> StatusMethodNotAllowed, reached |-> "none"]
         ELSE [called |-> TRUE, handler |-> handler, status |-> StatusOK,
               reached |-> handler]
    /\ UNCHANGED <<macVars, pktVars, sndVars, req, cfgVars, storeVars, extVars>>

NextRoutes == ServeHTTP

SpecRoutes == InitRoutes /\ [][NextRoutes]_vars

(***************************************************************************)
(* package arp: ParsePath, parseLine, isValidEntry.  The ARP table is a    *)
(* sequence of lines, each a text; every sample line comes with the entry  *)
(* it stands for, if it stands for one.                                    *)
(***************************************************************************)
MaxLines == 3

ARPLineSamples ==
    { [text |-> <<"I","P"," ","a","d","d","r","e","s","s"," ","H","W"," ","t","y","p","e"," ","F","l","a","g","s"," ","H","W"," ","a","d","d","r","e","s","s"," ","M","a","s","k"," ","D","e","v","i","c","e">>,
       has |-> FALSE],
      [text |-> <<"1","0",".","0",".","0",".","1"," ","0","x","1"," ","0","x","2"," ","a","a",":","b","b",":","c","c",":","d","d",":","e","e",":","f","f"," ","*"," ","e","t","h","0">>,
       has |-> TRUE, entry |-> [IP |-> <<"1","0",".","0",".","0",".","1">>, MAC |-> <<"a","a",":","b","b",":","c","c",":","d","d",":","e","e",":","f","f">>,
                               Device |-> <<"e","t","h","0">>, Flags |-> <<"0","x","2">>]],
      [text |-> <<" "," ","1","0",".","0",".","0",".","2","\t","0","x","1"," "," "," ","0","x","6"," "," ","0","0",":","1","A",":","2","B",":","3","C",":","4","D",":","5","E"," "," ","*"," "," ","w","l","a","n","0"," ">>,
       has |-> TRUE, entry |-> [IP |-> <<"1","0",".","0",".","0",".","2">>, MAC |-> <<"0","0",":","1","A",":","2","B",":","3","C",":","4","D",":","5","E">>,
                               Device |-> <<"w","l","a","n","0">>, Flags |-> <<"0","x","6">>]],
      [text |-> <<"1","0",".","0",".","0",".","3"," ","0","x","1"," ","0","x","0"," ","a","a",":","b","b",":","c","c",":","d","d",":","e","e",":","0","1"," ","*"," ","e","t","h","0">>,
       has |-> FALSE],
      [text |-> <<"1","0",".","0",".","0",".","4"," ","0","x","1"," ","0","x","2"," ","0","0",":","0","0",":","0","0",":","0","0",":","0","0",":","0","0"," ","*"," ","e","t","h","0">>,
       has |-> FALSE],
      [text |-> <<"1","0",".","0",".","0",".","5"," ","0","x","1"," ","0","x","2"," ","F","F",":","F","F",":","F","F",":","f","f",":","f","f",":","f","f"," ","*"," ","e","t","h","0">>,
       has |-> FALSE],
      [text |-> <<"1","0",".","0",".","0",".","6"," ","0","x","1"," ","0","x","2"," ","a","a","-","b","b","-","c","c","-","d","d","-","e","e","-","f","f"," ","*"," ","e","t","h","0">>,
       has |-> FALSE],
      [text |-> <<"1","0",".","0",".","0",".","7"," ","0","x","1"," ","0","x","2"," ","a","a",":","b","b",":","c","c",":","d","d",":","e","e",":","0","2"," ","*">>,
       has |-> FALSE],
      [text |-> <<"1","0",".","0",".","0",".","8"," ","0","x","1"," ","0","x","0","0"," ","a","a",":","b","b",":","c","c",":","d","d",":","e","e",":","0","3"," ","*"," ","l","o"," ","e","x","t","r","a">>,
       has |-> TRUE, entry |-> [IP |-> <<"1","0",".","0",".","0",".","8">>, MAC |-> <<"a","a",":","b","b",":","c","c",":","d","d",":","e","e",":","0","3">>,
                               Device |-> <<"l","o">>, Flags |-> <<"0","x","0","0">>]],
      [text |-> <<>>,
       has |-> FALSE],
      [text |-> <<" ","\t">>,
       has |-> FALSE],
      [text |-> <<" ","#"," ","1","0",".","0",".","0",".","9"," ","0","x","1"," ","0","x","2"," ","a","a",":","b","b",":","c","c",":","d","d",":","e","e",":","0","4"," ","*"," ","e","t","h","0">>,
       has |-> FALSE] }

ARPFiles ==
    { [exists |-> FALSE, lines |-> <<>>] }
    \cup { [exists |-> TRUE, lines |-> l] :
              l \in UNION { [1..n -> ARPLineSamples] : n \in 0..MaxLines } }

OpenFailed == [kind |-> "failed to open ARP table"]

RECURSIVE Fields(_)
\* strings.Fields: the maximal runs of non-space characters
Fields(s) ==
    LET t == TrimLeft(s) IN
    IF t = <<>> THEN <<>>
    ELSE LET stops == { k \in 1..Len(t) : IsSpace(t[k]) }
             n == IF stops = {} THEN Len(t) + 1
                  ELSE CHOOSE k \in stops : \A j \in stops : k <= j
         IN  <<SubSeq(t, 1, n - 1)>> \o Fields(SubSeq(t, n, Len(t)))

\* strings.HasPrefix(s, c) for a one-character prefix
HasPrefix(s, c) == s # <<>> /\ s[1] = c

\* unicode.ToLower on the letters a MAC can hold
ToLower(c) ==
    IF \E k \in 11..16 : c = HexDigitsUpper[k]
    THEN HexDigitsLower[CHOOSE k \in 11..16 : c = HexDigitsUpper[k]]
    ELSE c

\* strings.EqualFold
EqualFold(a, b) ==
    /\ Len(a) = Len(b)
    /\ \A k \in 1..Len(a) : ToLower(a[k]) = ToLower(b[k])

\* "00:00:00:00:00:00" and "ff:ff:ff:ff:ff:ff"
invalidMACs ==
    { <<"0","0",":","0","0",":","0","0",":","0","0",":","0","0",":","0","0">>,
      <<"f","f",":","f","f",":","f","f",":","f","f",":","f","f",":","f","f">> }

IncompleteFlags == <<"0","x","0">>
MinFields == 6

\* parseLine: the entry of a line, or an error
parseLine(line) ==
    LET fields == Fields(line) IN
    IF Len(fields) < MinFields
    THEN [ok |-> FALSE]
    ELSE [ok |-> TRUE,
          entry |-> [IP |-> fields[1], Flags |-> fields[3], MAC |-> fields[4],
                     Device |-> fields[6]]]

\* variant: the MAC is compared with the invalid ones letter for letter
isValidEntry_CaseSensitive(entry) ==
    /\ macRegexMatch(entry.MAC)
    /\ entry.MAC \notin invalidMACs
    /\ entry.Flags # IncompleteFlags

isValidEntry(entry) ==
    /\ macRegexMatch(entry.MAC)
    /\ \A invalid \in invalidMACs : ~EqualFold(entry.MAC, invalid)
    /\ entry.Flags # IncompleteFlags

RECURSIVE parseLines(_, _)
\* the scanning loop of ParsePath from line k on
parseLines(lines, k) ==
    IF k > Len(lines) THEN <<>>
    ELSE LET line == TrimSpace(lines[k]) IN
         IF line = <<>> \/ HasPrefix(line, "#")
         THEN parseLines(lines, k + 1)
         ELSE IF ~parseLine(line).ok
         THEN parseLines(lines, k + 1)
         ELSE IF isValidEntry(parseLine(line).entry)
         THEN <<parseLine(line).entry>> \o parseLines(lines, k + 1)
         ELSE parseLines(lines, k + 1)

\* ParsePath: the first line is skipped as the header
ParsePath(file) ==
    IF ~file.exists THEN [entries |-> <<>>, err |-> OpenFailed]
    ELSE [entries |-> parseLines([k \in 1..Len(file.lines) |-> file.lines[k].text], 2),
          err |-> NoErr]

InitARP ==
    /\ MACUnused
    /\ PacketUnused
    /\ SenderUnused
    /\ WebUnused
    /\ ConfigUnused
    /\ StoreUnused
    /\ LockUnused
    /\ APIUnused
    /\ LogUnused
    /\ arpFile \in ARPFiles
    /\ arpResult = NotCalled

CallParsePath ==
    /\ ~arpResult.called
    /\ arpResult' = [called |-> TRUE, entries |-> ParsePath(arpFile).entries,
                     err |-> ParsePath(arpFile).err]
    /\ UNCHANGED <<macVars, pktVars, sndVars, webVars, cfgVars, storeVars, arpFile, lockVars,
                   apiVars, logVars>>

NextARP == CallParsePath

SpecARP == InitARP /\ [][NextARP]_vars

(***************************************************************************)
(* package store under concurrent callers.  Each goroutine makes a fixed   *)
(* sequence of calls; a call takes the mutex (Lock for Add, RLock for      *)
(* List, GetByGroup and Count), runs its body and releases the mutex on    *)
(* return.  A write lock needs no holder at all, a read lock no writer.    *)
(***************************************************************************)
NoHolder == 0

\* the calls of each goroutine (TestStore_ConcurrentAccess: Add, List,
\* GetByGroup per goroutine, with a MAC of its own; Count on the side)
Programs ==
    <<  << [op |-> "Add", device |-> [name |-> "pc", mac |-> "AA:BB:CC:DD:EE:01",
                                      ip |-> "", group |-> ""]],
           [op |-> "List"] >>,
        << [op |-> "Add", device |-> [name |-> "nas", mac |-> "AA:BB:CC:DD:EE:02",
                                      ip |-> "192.168.1.20", group |-> "lab"]],
           [op |-> "GetByGroup", group |-> "lab"] >>,
        << [op |-> "Count"], [op |-> "List"] >>  >>

Goroutines == DOMAIN threads

\* where a call starts: at the mutex
EntryOf(call) == IF call.op = "Add" THEN "Lock" ELSE "RLock"

\* the call goroutine t is in
CallOf(t) == Programs[t][threads[t].ip]
Running(t) == threads[t].ip <= Len(Programs[t])

\* what List, GetByGroup and Count return on a device list
ReadValue(call, devs) ==
    CASE call.op = "List" -> devs
      [] call.op = "GetByGroup" -> SelectSeq(devs, LAMBDA d : d.group = call.group)
      [] call.op = "Count" -> Len(devs)

\* the call of goroutine t returns result r; the next call starts
Finish(t, r) ==
    LET next == threads[t].ip + 1 IN
    [threads EXCEPT ![t] =
        [ip |-> next,
         pc |-> IF next <= Len(Programs[t]) THEN EntryOf(Programs[t][next]) ELSE "done",
         results |-> Append(threads[t].results, r),
         err |-> NoErr, write |-> ""]]

InitStoreConcurrent ==
    /\ MACUnused
    /\ PacketUnused
    /\ SenderUnused
    /\ WebUnused
    /\ ConfigUnused
    /\ ARPUnused
    /\ APIUnused
    /\ LogUnused
    /\ devices = <<>>
    /\ disk = Nil
    /\ lastOp = NotCalled
    /\ mu = [writer |-> NoHolder, readers |-> {}]
    /\ threads = [t \in 1..Len(Programs) |->
                     [ip |-> 1, pc |-> EntryOf(Programs[t][1]), results |-> <<>>,
                      err |-> NoErr, write |-> ""]]
    /\ history = << <<>> >>

\* s.mu.Lock()
Lock(t) ==
    /\ Running(t) /\ threads[t].pc = "Lock"
    /\ mu.writer = NoHolder /\ mu.readers = {}
    /\ mu' = [mu EXCEPT !.writer = t]
    /\ threads' = [threads EXCEPT ![t].pc = "append"]
    /\ UNCHANGED <<macVars, pktVars, sndVars, webVars, cfgVars, storeVars, arpVars, history,
                   apiVars, logVars>>

\* Add: the duplicate check and the append
AddAppend(t) ==
    /\ Running(t) /\ threads[t].pc = "append"
    /\ LET device == CallOf(t).device IN
       IF HasMAC(devices, device.mac)
       THEN /\ threads' = [threads EXCEPT ![t].pc = "Unlock",
                                          ![t].err = AlreadyExists(device.mac)]
            /\ UNCHANGED devices
       ELSE /\ devices' = Append(devices, device)
            /\ threads' = [threads EXCEPT ![t].pc = "saveLocked"]
    /\ UNCHANGED <<macVars, pktVars, sndVars, webVars, cfgVars, disk, lastOp, arpVars,
                   mu, history, apiVars, logVars>>

\* Add: saveLocked, and the rollback when it fails
AddSave(t) ==
    /\ Running(t) /\ threads[t].pc = "saveLocked"
    /\ \E write \in WriteOutcomes :
          LET saved == saveLocked(devices, write) IN
          /\ disk' = saved.disk
          /\ devices' = IF saved.err # NoErr
                        THEN SubSeq(devices, 1, Len(devices) - 1)
                        ELSE devices
          /\ history' = IF saved.err # NoErr THEN history ELSE Append(history, devices)
          /\ threads' = [threads EXCEPT ![t].pc = "Unlock", ![t].err = saved.err,
                                        ![t].write = write]
    /\ UNCHANGED <<macVars, pktVars, sndVars, webVars, cfgVars, lastOp, arpVars, mu,
                   apiVars, logVars>>

\* the deferred s.mu.Unlock(); Add returns
Unlock(t) ==
    /\ Running(t) /\ threads[t].pc = "Unlock"
    /\ mu' = [mu EXCEPT !.writer = NoHolder]
    /\ threads' = Finish(t, [op |-> "Add", err |-> threads[t].err,
                             write |-> threads[t].write])
    /\ UNCHANGED <<macVars, pktVars, sndVars, webVars, cfgVars, storeVars, arpVars, history,
                   apiVars, logVars>>

\* variant: readers do not wait for the writer
RLock_NoWait(t) ==
    /\ Running(t) /\ threads[t].pc = "RLock"
    /\ mu' = [mu EXCEPT !.readers = @ \cup {t}]
    /\ threads' = [threads EXCEPT ![t].pc = "read"]
    /\ UNCHANGED <<macVars, pktVars, sndVars, webVars, cfgVars, storeVars, arpVars, history,
                   apiVars, logVars>>

\* s.mu.RLock()
RLock(t) ==
    /\ Running(t) /\ threads[t].pc = "RLock"
    /\ mu.writer = NoHolder
    /\ mu' = [mu EXCEPT !.readers = @ \cup {t}]
    /\ threads' = [threads EXCEPT ![t].pc = "read"]
    /\ UNCHANGED <<macVars, pktVars, sndVars, webVars, cfgVars, storeVars, arpVars, history,
                   apiVars, logVars>>

\* the body of List, GetByGroup or Count
Read(t) ==
    /\ Running(t) /\ threads[t].pc = "read"
    /\ threads' = [threads EXCEPT ![t].pc = "RUnlock",
                                  ![t].err = [value |-> ReadValue(CallOf(t), devices)]]
    /\ UNCHANGED <<macVars, pktVars, sndVars, webVars, cfgVars, storeVars, arpVars, mu,
                   history, apiVars, logVars>>

\* the deferred s.mu.RUnlock(); the reader returns
RUnlock(t) ==
    /\ Running(t) /\ threads[t].pc = "RUnlock"
    /\ mu' = [mu EXCEPT !.readers = @ \ {t}]
    /\ threads' = Finish(t, [op |-> CallOf(t).op, call |-> CallOf(t),
                             value |-> threads[t].err.value])
    /\ UNCHANGED <<macVars, pktVars, sndVars, webVars, cfgVars, storeVars, arpVars, history,
                   apiVars, logVars>>

NextStoreConcurrent ==
    \E t \in 1..Len(Programs) :
       \/ Lock(t)
       \/ AddAppend(t)
       \/ AddSave(t)
       \/ Unlock(t)
       \/ RLock(t)
       \/ Read(t)
       \/ RUnlock(t)

SpecStoreConcurrent == InitStoreConcurrent /\ [][NextStoreConcurrent]_vars

(***************************************************************************)
(* package web: the device endpoints /api/add, /api/delete and             *)
(* /api/import.  Requests are served concurrently, one per connection; a   *)
(* handler is atomic between two calls on the store, each of which holds   *)
(* the store's mutex.  Names, MACs and IPs are texts.                      *)
(***************************************************************************)
Connections == {1, 2}
ImportBuilds == {"A", "B"}
NamePrefixLen == 8

\* what a write of the store file does while requests are served
APIWriteOutcomes == {"ok", "unchanged"}

RECURSIVE SplitOn(_, _)
\* strings.Split(s, c) for a one-character separator
SplitOn(s, c) ==
    LET stops == { k \in 1..Len(s) : s[k] = c } IN
    IF stops = {} THEN <<s>>
    ELSE LET n == CHOOSE k \in stops : \A j \in stops : k <= j IN
         <<SubSeq(s, 1, n - 1)>> \o SplitOn(SubSeq(s, n + 1, Len(s)), c)

\* ipRegex = ^(\d{1,3}\.){3}\d{1,3}$
ipRegexMatch(s) ==
    LET parts == SplitOn(s, ".") IN
    /\ Len(parts) = 4
    /\ \A k \in 1..4 : /\ Len(parts[k]) \in 1..3
                       /\ \A j \in 1..Len(parts[k]) : IsDigit(parts[k][j])

\* validateDevice
validateDevice(device) ==
    IF device.name = <<>> THEN [kind |-> "device name is required"]
    ELSE IF device.mac = <<>> THEN [kind |-> "MAC address is required"]
    ELSE IF ValidateMAC(device.mac).err # NoErr
    THEN [kind |-> "invalid MAC address", cause |-> ValidateMAC(device.mac).err]
    ELSE IF device.ip # <<>> /\ ~ipRegexMatch(device.ip)
    THEN [kind |-> "invalid IP address format"]
    ELSE NoErr

\* bodies of POST /api/add
AddBodies ==
    { [json |-> FALSE, device |-> Nil],
      [json |-> TRUE, device |-> [name |-> <<"p","c">>, mac |-> <<"A","A",":","B","B",":","C","C",":","D","D",":","E","E",":","0","1">>, ip |-> <<>>, group |-> <<>>]],
      [json |-> TRUE, device |-> [name |-> <<"n","a","s">>, mac |-> <<"A","A",":","B","B",":","C","C",":","D","D",":","E","E",":","0","1">>, ip |-> <<"1","0",".","0",".","0",".","7">>, group |-> <<"l","a","b">>]],
      [json |-> TRUE, device |-> [name |-> <<"t","v">>, mac |-> <<"a","a","-","b","b","-","c","c","-","d","d","-","e","e","-","0","2">>, ip |-> <<>>, group |-> <<>>]],
      [json |-> TRUE, device |-> [name |-> <<>>, mac |-> <<"A","A",":","B","B",":","C","C",":","D","D",":","E","E",":","0","1">>, ip |-> <<>>, group |-> <<>>]],
      [json |-> TRUE, device |-> [name |-> <<"p","c">>, mac |-> <<"A","A",":","B","B">>, ip |-> <<>>, group |-> <<>>]],
      [json |-> TRUE, device |-> [name |-> <<"p","c">>, mac |-> <<>>, ip |-> <<>>, group |-> <<>>]],
      [json |-> TRUE, device |-> [name |-> <<"p","c">>, mac |-> <<"A","A",":","B","B",":","C","C",":","D","D",":","E","E",":","0","1">>, ip |-> <<"1","0",".","0",".","7">>, group |-> <<>>]] }

\* bodies of POST /api/delete
DeleteBodies ==
    { [json |-> FALSE, mac |-> <<>>],
      [json |-> TRUE, mac |-> <<>>],
      [json |-> TRUE, mac |-> <<"A","A",":","B","B",":","C","C",":","D","D",":","E","E",":","0","1">>],
      [json |-> TRUE, mac |-> <<"a","a","-","b","b","-","c","c","-","d","d","-","e","e","-","0","2">>] }

\* bodies of POST /api/import
ImportBodies ==
    { [json |-> FALSE, devices |-> <<>>],
      [json |-> TRUE, devices |-> <<>>],
      [json |-> TRUE, devices |-> << [name |-> <<"p","c">>, mac |-> <<"A","A",":","B","B",":","C","C",":","D","D",":","E","E",":","0","1">>, ip |-> <<>>] >>],
      [json |-> TRUE,
       devices |-> << [name |-> <<>>, mac |-> <<"A","A",":","B","B",":","C","C",":","D","D",":","E","E",":","0","1">>, ip |-> <<"1","0",".","0",".","0",".","7">>],
                      [name |-> <<"t","v">>, mac |-> <<"a","a","-","b","b","-","c","c","-","d","d","-","e","e","-","0","2">>, ip |-> <<>>] >>],
      [json |-> TRUE,
       devices |-> << [name |-> <<"p","c">>, mac |-> <<>>, ip |-> <<>>],
                      [name |-> <<"p","c">>, mac |-> <<"A","A",":","B","B">>, ip |-> <<>>] >>],
      [json |-> TRUE, devices |-> << [name |-> <<>>, mac |-> <<"A","A",":","B","B">>, ip |-> <<>>] >>] }

IdleRequest ==
    [pc |-> "idle", kind |-> "", method |-> "", body |-> Nil, existing |-> FALSE,
     k |-> 0, newDevice |-> Nil, successCount |-> 0, skippedCount |-> 0,
     absent |-> <<>>, added |-> <<>>, write |-> <<>>, resp |-> NotCalled]

\* the request of connection r with some fields changed
Serving(r, changes) ==
    [inflight EXCEPT ![r] = [f \in DOMAIN inflight[r] |->
        IF f \in DOMAIN changes THEN changes[f] ELSE inflight[r][f]]]

\* respondSuccess(data)
respondSuccess(data) == respond(TRUE, data)

\* the handler panicked: net/http drops the connection without a response
Aborted == [called |-> TRUE, status |-> 0, success |-> FALSE, text |-> "panic"]

InitAPI ==
    /\ MACUnused
    /\ PacketUnused
    /\ SenderUnused
    /\ WebUnused
    /\ ConfigUnused
    /\ ARPUnused
    /\ LockUnused
    /\ LogUnused
    /\ devices = <<>>
    /\ disk = Nil
    /\ lastOp = NotCalled
    /\ importBuild \in ImportBuilds
    /\ inflight = [r \in Connections |-> IdleRequest]

\* addHandler up to the existence check h.store.GetByMAC(device.MAC)
addHandler(r) ==
    /\ inflight[r].pc = "idle"
    /\ \E m \in {"GET", "POST"}, b \in AddBodies :
          LET started == [IdleRequest EXCEPT !.kind = "add", !.method = m, !.body = b] IN
          inflight' = [inflight EXCEPT ![r] =
             IF m # "POST"
             THEN [started EXCEPT !.pc = "responded",
                      !.resp = respondError("Method not allowed", StatusMethodNotAllowed)]
             ELSE IF ~b.json
             THEN [started EXCEPT !.pc = "responded",
                      !.resp = respondError("Invalid request body", StatusBadRequest)]
             ELSE IF validateDevice(b.device) # NoErr
             THEN [started EXCEPT !.pc = "responded",
                      !.resp = respondError(validateDevice(b.device), StatusBadRequest)]
             ELSE [started EXCEPT !.pc = "addStore",
                      !.existing = (GetByMAC(devices, b.device.mac).err = NoErr)]]
    /\ UNCHANGED <<macVars, pktVars, sndVars, webVars, cfgVars, storeVars, arpVars,
                   lockVars, importBuild, logVars>>

\* addHandler from the Update or Add call to the response
addHandlerStore(r) ==
    /\ inflight[r].pc = "addStore"
    /\ \E write \in APIWriteOutcomes :
          LET device == inflight[r].body.device
              done == IF inflight[r].existing
                      THEN StoreUpdate(devices, device.mac, device, write)
                      ELSE StoreAdd(devices, device, write)
          IN  /\ devices' = done.devices
              /\ disk' = done.disk
              /\ inflight' = Serving(r,
                    [pc |-> "responded", write |-> <<write>>,
                     resp |-> IF done.err # NoErr
                              THEN respondError(done.err, StatusInternalServerError)
                              ELSE respondSuccess(Nil)])
    /\ UNCHANGED <<macVars, pktVars, sndVars, webVars, cfgVars, lastOp, arpVars,
                   lockVars, importBuild, logVars>>

\* deleteHandler
deleteHandler(r) ==
    /\ inflight[r].pc = "idle"
    /\ \E m \in {"GET", "POST"}, b \in DeleteBodies, write \in APIWriteOutcomes :
          LET started == [IdleRequest EXCEPT !.kind = "delete", !.method = m, !.body = b,
                                            !.pc = "responded"]
              done == StoreDelete(devices, b.mac, write)
          IN  IF m # "POST"
              THEN /\ inflight' = [inflight EXCEPT ![r] = [started EXCEPT
                         !.resp = respondError("Method not allowed", StatusMethodNotAllowed)]]
                   /\ UNCHANGED <<devices, disk>>
              ELSE IF ~b.json
              THEN /\ inflight' = [inflight EXCEPT ![r] = [started EXCEPT
                         !.resp = respondError("Invalid request body", StatusBadRequest)]]
                   /\ UNCHANGED <<devices, disk>>
              ELSE IF b.mac = <<>>
              THEN /\ inflight' = [inflight EXCEPT ![r] = [started EXCEPT
                         !.resp = respondError("MAC address is required", StatusBadRequest)]]
                   /\ UNCHANGED <<devices, disk>>
              ELSE /\ devices' = done.devices
                   /\ disk' = done.disk
                   /\ inflight' = [inflight EXCEPT ![r] = [started EXCEPT
                         !.write = <<write>>,
                         !.resp = IF done.err # NoErr
                                  THEN respondError(done.err, StatusNotFound)
                                  ELSE respondSuccess(Nil)]]
    /\ UNCHANGED <<macVars, pktVars, sndVars, webVars, cfgVars, lastOp, arpVars,
                   lockVars, importBuild, logVars>>

\* importHandler: handleImportGet (the local ARP table, or the error of
\* reading it), or handleImportPost up to the loop over req.Devices
importHandler(r) ==
    /\ inflight[r].pc = "idle"
    /\ \E m \in {"GET", "POST", "PUT"}, b \in ImportBodies, arpRead \in BOOLEAN :
          LET started == [IdleRequest EXCEPT !.kind = "import", !.method = m,
                             !.body = IF m = "POST" THEN b ELSE Nil]
          IN
          inflight' = [inflight EXCEPT ![r] =
             IF m = "GET"
             THEN [started EXCEPT !.pc = "responded",
                      !.resp = IF arpRead
                               THEN respondSuccess("ARP entries")
                               ELSE respondError("Failed to read ARP table",
                                                 StatusInternalServerError)]
             ELSE IF m # "POST"
             THEN [started EXCEPT !.pc = "responded",
                      !.resp = respondError("Method not allowed", StatusMethodNotAllowed)]
             ELSE IF ~b.json
             THEN [started EXCEPT !.pc = "responded",
                      !.resp = respondError("Invalid request body", StatusBadRequest)]
             ELSE [started EXCEPT !.pc = "importCheck", !.k = 1]]
    /\ UNCHANGED <<macVars, pktVars, sndVars, webVars, cfgVars, storeVars, arpVars,
                   lockVars, importBuild, logVars>>

\* one turn of the loop up to h.store.Add: the empty-MAC test, the
\* existence test (build A skips when GetByMAC returns an error, build B
\* when it returns none) and the name; MAC[:8] panics on a shorter MAC
importCheck(r) ==
    /\ inflight[r].pc = "importCheck"
    /\ inflight[r].k <= Len(inflight[r].body.devices)
    /\ LET f == inflight[r]
           device == f.body.devices[f.k]
           found == GetByMAC(devices, device.mac).err = NoErr
           absent == IF device.mac # <<>> /\ ~HasMAC(devices, device.mac)
                     THEN Append(f.absent, f.k) ELSE f.absent
           skip == IF importBuild = "A" THEN ~found ELSE found
       IN  inflight' =
             IF device.mac = <<>>
             THEN Serving(r, [k |-> f.k + 1])
             ELSE IF skip
             THEN Serving(r, [k |-> f.k + 1, absent |-> absent,
                              skippedCount |-> IF importBuild = "B"
                                               THEN f.skippedCount + 1
                                               ELSE f.skippedCount])
             ELSE IF device.name = <<>> /\ Len(device.mac) < NamePrefixLen
             THEN Serving(r, [pc |-> "responded", absent |-> absent, resp |-> Aborted])
             ELSE Serving(r, [pc |-> "importAdd", absent |-> absent,
                     newDevice |->
                        [name |-> IF device.name = <<>>
                                  THEN <<"D","e","v","i","c","e","-">>
                                       \o SubSeq(device.mac, 1, NamePrefixLen)
                                  ELSE device.name,
                         mac |-> device.mac, ip |-> device.ip, group |-> <<>>]])
    /\ UNCHANGED <<macVars, pktVars, sndVars, webVars, cfgVars, storeVars, arpVars,
                   lockVars, importBuild, logVars>>

\* h.store.Add(newDevice) and the count (build A counts every call, build
\* B the successful ones)
importAdd(r) ==
    /\ inflight[r].pc = "importAdd"
    /\ \E write \in APIWriteOutcomes :
          LET f == inflight[r]
              done == StoreAdd(devices, f.newDevice, write)
          IN  /\ devices' = done.devices
              /\ disk' = done.disk
              /\ inflight' = Serving(r,
                    [pc |-> "importCheck", k |-> f.k + 1, newDevice |-> Nil,
                     write |-> Append(f.write, write),
                     added |-> IF done.err = NoErr THEN Append(f.added, f.k) ELSE f.added,
                     successCount |-> IF importBuild = "A" \/ done.err = NoErr
                                      THEN f.successCount + 1 ELSE f.successCount])
    /\ UNCHANGED <<macVars, pktVars, sndVars, webVars, cfgVars, lastOp, arpVars,
                   lockVars, importBuild, logVars>>

\* the reply of handleImportPost after the loop
importRespond(r) ==
    /\ inflight[r].pc = "importCheck"
    /\ inflight[r].k > Len(inflight[r].body.devices)
    /\ LET f == inflight[r]
           message == [kind |-> "Imported", n |-> f.successCount,
                       skipped |-> f.skippedCount]
       IN  inflight' = Serving(r,
              [pc |-> "responded",
               resp |-> respond(importBuild = "A" \/ f.successCount > 0, message)])
    /\ UNCHANGED <<macVars, pktVars, sndVars, webVars, cfgVars, storeVars, arpVars,
                   lockVars, importBuild, logVars>>

\* the connection takes its next request
Served(r) ==
    /\ inflight[r].pc = "responded"
    /\ inflight' = [inflight EXCEPT ![r] = IdleRequest]
    /\ UNCHANGED <<macVars, pktVars, sndVars, webVars, cfgVars, storeVars, arpVars,
                   lockVars, importBuild, logVars>>

NextAPI ==
    \E r \in Connections :
       \/ addHandler(r)
       \/ addHandlerStore(r)
       \/ deleteHandler(r)
       \/ importHandler(r)
       \/ importCheck(r)
       \/ importAdd(r)
       \/ importRespond(r)
       \/ Served(r)

SpecAPI == InitAPI /\ [][NextAPI]_vars

(***************************************************************************)
(* package logger: leveled logging to a file that is rotated by size.      *)
(* Log runs under the logger's mutex; the cleanupOldBackups goroutine that *)
(* a rotation starts runs beside later Log calls without it.  A file is    *)
(* its identity, size and modification time; a backup also has the name    *)
(* the rotation gave it, the time of the clock at the rename: a tick of    *)
(* the clock is the resolution of the timestamp in a backup's name and of  *)
(* a modification time.  File sizes are in bytes.                          *)
(***************************************************************************)
MiB == 1024 * 1024
MaxLogs == 3
MaxTime == 2
MaxRotations == 3

\* a day, in ticks of the clock
DayTicks == 1

Levels == <<"DEBUG", "INFO", "WARN", "ERROR">>
LevelRank(level) == CHOOSE k \in 1..Len(Levels) : Levels[k] = level

\* parseLevel
parseLevel(level) ==
    CASE level = "debug" -> "DEBUG"
      [] level = "info" -> "INFO"
      [] level \in {"warn", "warning"} -> "WARN"
      [] level = "error" -> "ERROR"
      [] OTHER -> "INFO"

\* shouldLog
shouldLog(l, level) == LevelRank(level) >= LevelRank(l.level)

LoggerConfigs ==
    [File : {"", "app.log"}, Level : {"", "error"}, MaxSize : {0, 1},
     MaxBackups : {0, 1}, MaxAge : {0, 1}]

\* sizes of a formatted log line
LineSizes == {MiB \div 2, MiB}

\* what the file system does to a rotation: it succeeds, os.Rename fails, or
\* the os.OpenFile after the rename fails
RotateOutcomes == {"ok", "rename", "open"}

NoFile == [exists |-> FALSE, id |-> 0, size |-> 0, mtime |-> 0]
NoLog == [called |-> FALSE]

\* New(cfg); the file is opened with O_CREATE|O_APPEND
New(config) ==
    [filePath |-> config.File,
     maxSize |-> config.MaxSize * MiB,
     maxBackups |-> config.MaxBackups,
     maxAge |-> config.MaxAge,
     level |-> parseLevel(config.Level),
     file |-> [isNil |-> config.File = "", id |-> 0, open |-> config.File # ""],
     rotations |-> 0, logs |-> 0, lastLog |-> NoLog]

\* checkRotation, with the size Stat has returned: whether to rotate
checkRotation(l, size) == l.maxSize > 0 /\ size >= l.maxSize

\* findBackupFiles: every file of the directory named <base>.<anything>
findBackupFiles(dir) == { [Path |-> b.name, ModTime |-> b.mtime] : b \in dir.backups }

\* time.Time.After and Before
After(t, u) == t > u
Before(t, u) == t < u

\* sortBackups: newest first; sort.Slice may leave equal times in any order
sortBackups(matches) ==
    { s \in [1..Cardinality(matches) -> matches] :
        /\ \A i, j \in DOMAIN s : i # j => s[i] # s[j]
        /\ \A i, j \in DOMAIN s : i < j => ~After(s[j].ModTime, s[i].ModTime) }

IdleCleanup ==
    [pc |-> "idle", phase |-> "", matches |-> <<>>, doomed |-> <<>>, failed |-> FALSE]

InitLogger ==
    /\ MACUnused
    /\ PacketUnused
    /\ SenderUnused
    /\ WebUnused
    /\ ConfigUnused
    /\ StoreUnused
    /\ ARPUnused
    /\ LockUnused
    /\ APIUnused
    /\ \E config \in LoggerConfigs, size \in {0, MiB} :
          /\ logger = New(config)
          /\ logDir = [clock |-> 0,
                       current |-> IF config.File = "" THEN NoFile
                                   ELSE [exists |-> TRUE, id |-> 0, size |-> size,
                                         mtime |-> 0],
                       backups |-> {}, removed |-> {}]
    /\ cleanups = [r \in 1..MaxRotations |-> IdleCleanup]

\* Log, with checkRotation and rotate
Log(level, line, outcome) ==
    /\ logger.logs < MaxLogs
    /\ LET l == logger
           now == logDir.clock
           statOK == ~l.file.isNil /\ l.file.open
           found == IF statOK THEN logDir.current.size ELSE 0
           rotates == shouldLog(l, level) /\ statOK /\ checkRotation(l, found)
           renamed == rotates /\ outcome # "rename"
           opened == rotates /\ outcome = "ok"
           backup == [name |-> now, id |-> logDir.current.id,
                      size |-> logDir.current.size, mtime |-> logDir.current.mtime]
           fresh == [exists |-> TRUE, id |-> l.rotations + 1, size |-> 0, mtime |-> now]
           file == IF ~rotates THEN l.file
                   ELSE IF opened THEN [isNil |-> FALSE, id |-> fresh.id, open |-> TRUE]
                   ELSE [l.file EXCEPT !.open = FALSE]
           rotated == IF opened THEN fresh ELSE IF renamed THEN NoFile ELSE logDir.current
           written == IF shouldLog(l, level) /\ ~file.isNil /\ file.open
                      THEN [rotated EXCEPT !.size = @ + line, !.mtime = now]
                      ELSE rotated
       IN
       /\ rotates => l.rotations < MaxRotations
       /\ logger' = [l EXCEPT
             !.file = file,
             !.rotations = IF renamed THEN @ + 1 ELSE @,
             !.logs = @ + 1,
             !.lastLog = [called |-> TRUE, level |-> level, logged |-> shouldLog(l, level),
                          line |-> line, time |-> now, fileOpen |-> statOK,
                          found |-> found, old |-> logDir.current.id,
                          outcome |-> IF rotates THEN outcome ELSE "",
                          rotated |-> renamed, backup |-> backup,
                          wrote |-> IF ~shouldLog(l, level) THEN "nothing"
                                    ELSE IF file.isNil THEN "stdout"
                                    ELSE IF file.open THEN "file" ELSE "failed"]]
       /\ logDir' = [logDir EXCEPT
             !.current = written,
             !.backups = IF renamed
                         THEN { b \in @ : b.name # backup.name } \cup {backup}
                         ELSE @]
       /\ cleanups' = IF renamed
                      THEN [cleanups EXCEPT ![l.rotations + 1] =
                               [IdleCleanup EXCEPT !.pc = "start"]]
                      ELSE cleanups
    /\ UNCHANGED <<macVars, pktVars, sndVars, webVars, cfgVars, storeVars, arpVars,
                   lockVars, apiVars>>

\* cleanupOldBackups up to the end of sortBackups; os.ReadDir may fail
CleanupList(r, read) ==
    /\ cleanups[r].pc = "start"
    /\ IF logger.maxBackups <= 0 /\ logger.maxAge <= 0
       THEN cleanups' = [cleanups EXCEPT ![r].pc = "done"]
       ELSE IF ~read
       THEN cleanups' = [cleanups EXCEPT ![r].pc = "done", ![r].failed = TRUE]
       ELSE \E matches \in sortBackups(findBackupFiles(logDir)) :
               LET excess == logger.maxBackups > 0 /\ Len(matches) > logger.maxBackups IN
               cleanups' = [cleanups EXCEPT ![r] =
                  [pc |-> "remove", phase |-> "excess", failed |-> FALSE,
                   matches |-> IF excess THEN SubSeq(matches, 1, logger.maxBackups)
                               ELSE matches,
                   doomed |-> IF excess
                              THEN SubSeq(matches, logger.maxBackups + 1, Len(matches))
                              ELSE <<>>]]
    /\ UNCHANGED <<macVars, pktVars, sndVars, webVars, cfgVars, storeVars, arpVars,
                   lockVars, apiVars, logger, logDir>>

\* one os.Remove(f.Path) of either loop; removing a missing file changes
\* nothing
CleanupRemove(r) ==
    /\ cleanups[r].pc = "remove"
    /\ cleanups[r].doomed # <<>>
    /\ LET path == Head(cleanups[r].doomed).Path
           gone == { b \in logDir.backups : b.name = path }
       IN  logDir' = [logDir EXCEPT !.backups = @ \ gone, !.removed = @ \cup gone]
    /\ cleanups' = [cleanups EXCEPT ![r].doomed = Tail(@)]
    /\ UNCHANGED <<macVars, pktVars, sndVars, webVars, cfgVars, storeVars, arpVars,
                   lockVars, apiVars, logger>>

\* after the loop over the excess: the cutoff of maxAge and the files kept
\* that are older; after the loop over those: the return
CleanupAge(r) ==
    /\ cleanups[r].pc = "remove"
    /\ cleanups[r].doomed = <<>>
    /\ LET c == cleanups[r]
           cutoff == logDir.clock - logger.maxAge * DayTicks
           old == SelectSeq(c.matches, LAMBDA f : Before(f.ModTime, cutoff))
       IN  cleanups' = [cleanups EXCEPT ![r] =
              IF c.phase = "excess" /\ logger.maxAge > 0
              THEN [c EXCEPT !.phase = "age", !.doomed = old]
              ELSE [c EXCEPT !.pc = "done"]]
    /\ UNCHANGED <<macVars, pktVars, sndVars, webVars, cfgVars, storeVars, arpVars,
                   lockVars, apiVars, logger, logDir>>

\* time passes
Tick ==
    /\ logDir.clock < MaxTime
    /\ logDir' = [logDir EXCEPT !.clock = @ + 1]
    /\ UNCHANGED <<macVars, pktVars, sndVars, webVars, cfgVars, storeVars, arpVars,
                   lockVars, apiVars, logger, cleanups>>

NextLogger ==
    \/ \E level \in {"DEBUG", "WARN"}, line \in LineSizes, outcome \in RotateOutcomes :
          Log(level, line, outcome)
    \/ \E r \in 1..MaxRotations, read \in BOOLEAN : CleanupList(r, read)
    \/ \E r \in 1..MaxRotations : CleanupRemove(r)
    \/ \E r \in 1..MaxRotations : CleanupAge(r)
    \/ Tick

SpecLogger == InitLogger /\ [][NextLogger]_vars

(***************************************************************************)
(* Properties of the magic packet and of the MAC text operations           *)
(***************************************************************************)

\* C1: for every 6-byte input constructMagicPacket returns exactly 102 bytes,
\* bytes 0..5 are 0xFF and each of the 16 following 6-byte blocks equals the
\* input bytes in order.
ThmC1_MagicPacketLayout ==
    packet.called =>
        /\ Len(packet.bytes) = 102
        /\ \A k \in 0..5 : packet.bytes[k + 1] = 255
        /\ \A i \in 0..15 : \A j \in 0..5 : packet.bytes[6 + 6 * i + j + 1] = pktIn[j + 1]

WitC1_PacketBuilt ==
    /\ packet.called
    /\ Len(pktIn) = 6
    /\ pktIn[1] # pktIn[2]
    /\ pktIn[6] # 255

\* C2: the colon, dash and dot forms of one logical address, in any letter
\* case and with surrounding whitespace, all parse to the same 6 bytes, and
\* byte k is the k-th hex pair as written.
ThmC2_NotationInvariance ==
    (parsed.called /\ src.edit = NoEdit) =>
        /\ parsed.err = NoErr
        /\ parsed.bytes = src.logical

WitC2_DotFormParsed ==
    /\ parsed.called
    /\ src.edit = NoEdit
    /\ src.notation = "dot"
    /\ src.casing = "mixed"
    /\ src.padL > 0
    /\ src.padR > 0
    /\ parsed.bytes = <<0, 26, 43, 60, 77, 94>>

\* the two shapes the specification accepts, after trimming
IsSixPairs(t) ==
    /\ Len(t) = 17
    /\ \A k \in 1..17 : IF k % 3 = 0 THEN t[k] \in {":", "-"} ELSE IsHex(t[k])

IsCiscoForm(t) ==
    /\ Len(t) = 14
    /\ \A k \in 1..14 : IF k % 5 = 0 THEN t[k] = "." ELSE IsHex(t[k])

\* C3: parseMAC fails with the invalid-format error for every input with a
\* wrong group count, a non-hex character or a wrong group width; a dotted
\* input is accepted only as three 4-hex-digit groups, a colon or dash input
\* only as six 2-hex-digit groups.
CexC3_OnlyWellFormedAccepted ==
    parsed.called =>
        \/ parsed.err.kind = "invalid MAC address format"
        \/ LET t == TrimSpace(mac) IN
           IF Contains(t, ".") THEN IsCiscoForm(t) ELSE IsSixPairs(t)

\* C4: parseMAC returns either an error with no bytes or exactly 6 bytes.
ThmC4_SixBytesOrError ==
    parsed.called =>
        \/ parsed.err # NoErr /\ parsed.bytes = <<>>
        \/ parsed.err = NoErr /\ Len(parsed.bytes) = 6

WitC4_EditedTextAccepted ==
    /\ parsed.called
    /\ src.edit # NoEdit
    /\ parsed.err = NoErr
    /\ Len(parsed.bytes) = 6

\* C5: for every input parseMAC accepts, NormalizeMAC returns the uppercase
\* colon-separated form of the same six octets; for every input it rejects,
\* an error and the empty string.
ThmC5_NormalizeCanonical ==
    normalized.called =>
        LET p == parseMAC(mac) IN
        /\ p.err = NoErr =>
              /\ normalized.err = NoErr
              /\ normalized.str = Render(p.bytes, "colon", "upper")
        /\ p.err # NoErr =>
              /\ normalized.err # NoErr
              /\ normalized.str = <<>>
        /\ src.edit = NoEdit =>
              normalized.str = Render(src.logical, "colon", "upper")

WitC5_LowerDashNormalized ==
    /\ normalized.called
    /\ normalized.err = NoErr
    /\ src.notation = "dash"
    /\ src.casing = "lower"
    /\ normalized.str # mac

\* C6: ValidateMAC returns no error if and only if parseMAC succeeds, so a
\* text that passed ValidateMAC never fails a later parse.
ThmC6_ValidateAgreesWithParse ==
    /\ validated.called => (validated.err = NoErr <=> parseMAC(mac).err = NoErr)
    /\ (validated.called /\ parsed.called) =>
          (validated.err = NoErr <=> parsed.err = NoErr)

WitC6_ValidatedThenParsed ==
    /\ validated.called
    /\ parsed.called
    /\ validated.err = NoErr
    /\ parsed.err = NoErr
    /\ src.padL > 0

\* C7 as stated: the invalid-format error of parseMAC and ValidateMAC carries
\* the caller's original text, not the rewritten one.
CexC7_ErrorCarriesOriginalText ==
    /\ (parsed.called /\ parsed.err.kind = "invalid MAC address format") =>
          parsed.err.text = mac
    /\ (validated.called /\ validated.err.kind = "invalid MAC address format") =>
          validated.err.text = mac

\* the text after notation rewriting, position by position
RewrittenText(text) ==
    LET t == TrimSpace(text) IN
    IF \E k \in 1..Len(t) : t[k] = "."
    THEN LET d == SelectSeq(t, LAMBDA c : c # ".")
             n == IF Len(d) = 0 THEN 0 ELSE Len(d) + ((Len(d) - 1) \div 2)
         IN  [k \in 1..n |-> IF k % 3 = 0 THEN ":" ELSE d[k - (k \div 3)]]
    ELSE [k \in 1..Len(t) |-> IF t[k] = "-" THEN ":" ELSE t[k]]

IsCleanText(text) ==
    /\ \A k \in 1..Len(text) : text[k] \notin {"-", "."}
    /\ text = <<>> \/ (~IsSpace(text[1]) /\ ~IsSpace(text[Len(text)]))

\* C7 (amended): the invalid-format error carries the rewritten text (the
\* input trimmed, then with dots removed and a colon inserted after every two
\* characters when it contains a dot, otherwise with dashes replaced by
\* colons); it equals the caller's text exactly when that text has no
\* surrounding whitespace, dash or dot.
ThmC7_ErrorCarriesRewrittenText ==
    /\ (parsed.called /\ parsed.err # NoErr) =>
          /\ parsed.err.kind = "invalid MAC address format"
          /\ parsed.err.text = RewrittenText(mac)
          /\ parsed.err.text = mac <=> IsCleanText(mac)
    /\ (validated.called /\ validated.err # NoErr) =>
          /\ validated.err.kind = "invalid MAC address format"
          /\ validated.err.text = RewrittenText(mac)
          /\ validated.err.text = mac <=> IsCleanText(mac)

WitC7_RewrittenTextReported ==
    /\ parsed.called
    /\ validated.called
    /\ parsed.err.kind = "invalid MAC address format"
    /\ validated.err = parsed.err
    /\ src.notation = "dash"
    /\ parsed.err.text # mac
    /\ parsed.err.text # TrimSpace(mac)

(***************************************************************************)
(* Properties of NewSender, Send and SendRepeat                            *)
(***************************************************************************)

\* C8: NewSender succeeds exactly when the broadcast text, with the empty
\* text replaced by 255.255.255.255, is a syntactically valid IP address;
\* the interface name is stored unchecked and does not affect the outcome;
\* a failed construction returns no sender.
ThmC8_NewSenderOutcome ==
    newIn.called =>
        LET b == IF newIn.broadcast = <<>> THEN DefaultBroadcast ELSE newIn.broadcast
            valid == \E smp \in BroadcastSamples : smp.text = b /\ smp.valid
        IN  /\ sender # Nil <=> valid
            /\ sender = Nil <=> newErr # NoErr
            /\ sender # Nil => (sender.iface = newIn.iface /\ sender.broadcast = b)
            /\ sender = Nil => newErr = InvalidBroadcast(b)

WitC8_EmptyBroadcastDefaults ==
    /\ newIn.called
    /\ newIn.broadcast = <<>>
    /\ newIn.iface = "wlan0"
    /\ sender # Nil
    /\ sender.broadcast = DefaultBroadcast

\* C9: with an invalid MAC text, Send and SendRepeat return the parse error
\* unchanged and perform no transmission step (no interface lookup, no
\* socket, no datagram), whatever the count.
ThmC9_InvalidMACSendsNothing ==
    \A c \in Callers :
        (calls[c].pc # "idle" /\ ValidateMAC(calls[c].mac).err # NoErr) =>
            /\ calls[c].trace = <<>>
            /\ calls[c].conn = Nil
            /\ calls[c].pc \in {"parseMAC", "done"}
            /\ calls[c].pc = "done" =>
                  /\ calls[c].err = parseMAC(calls[c].mac).err
                  /\ calls[c].err.kind = "invalid MAC address format"

WitC9_InvalidMACReturned ==
    \E c \in Callers :
        /\ calls[c].pc = "done"
        /\ calls[c].op = "SendRepeat"
        /\ calls[c].count = 3
        /\ calls[c].mac # <<>>
        /\ calls[c].err.kind = "invalid MAC address format"
        /\ sender.iface # ""

\* the socket and delay events of a trace, in order
CycleEvents(trace) ==
    LET sel == SelectSeq(trace, LAMBDA e : e.ev \in {"open", "write", "close", "sleep"})
    IN  [k \in 1..Len(sel) |-> sel[k].ev]

RECURSIVE ExpectedCycles(_)
\* n open-write-close cycles with a delay between consecutive ones
ExpectedCycles(n) ==
    IF n <= 1 THEN <<"open", "write", "close">>
    ELSE ExpectedCycles(n - 1) \o <<"sleep", "open", "write", "close">>

IsPrefix(a, b) == Len(a) <= Len(b) /\ a = SubSeq(b, 1, Len(a))

\* C10: a SendRepeat(mac, N) with valid mac and N >= 1 whose transmissions
\* all succeed performs exactly N open-write-close cycles one after another,
\* with exactly N-1 delays of 10 ms, one between consecutive sends and none
\* after the last, and returns success.
ThmC10_SequentialCycles ==
    \A c \in Callers :
        /\ (calls[c].pc = "done" /\ calls[c].err = NoErr /\ calls[c].count >= 1) =>
              /\ CycleEvents(calls[c].trace) = ExpectedCycles(calls[c].count)
              /\ \A k \in 1..Len(calls[c].trace) :
                    /\ calls[c].trace[k].ev = "sleep" => calls[c].trace[k].ms = 10
                    /\ calls[c].trace[k].ev = "write" => calls[c].trace[k].ok
              /\ calls[c].conn = Nil
        /\ (calls[c].pc # "idle" /\ calls[c].count >= 1) =>
              /\ IsPrefix(CycleEvents(calls[c].trace), ExpectedCycles(calls[c].count))
              /\ calls[c].conn # Nil <=> calls[c].pc \in {"WriteToUDP", "Close"}

WitC10_ThreeCyclesDone ==
    \E c \in Callers :
        /\ calls[c].pc = "done"
        /\ calls[c].err = NoErr
        /\ calls[c].op = "SendRepeat"
        /\ calls[c].count = 3
        /\ sender.iface = "eth0"
        /\ Len(CycleEvents(calls[c].trace)) = 11

(***************************************************************************)
(* Properties of the transmission path                                     *)
(***************************************************************************)
\* number of events of a trace that satisfy Test
CountEvents(trace, Test(_)) == Len(SelectSeq(trace, Test))

Opens(trace) == CountEvents(trace, LAMBDA e : e.ev = "open")
Closes(trace) == CountEvents(trace, LAMBDA e : e.ev = "close")
Sleeps(trace) == CountEvents(trace, LAMBDA e : e.ev = "sleep")
WritesOK(trace) == CountEvents(trace, LAMBDA e : e.ev = "write" /\ e.ok)
WritesFailed(trace) == CountEvents(trace, LAMBDA e : e.ev = "write" /\ ~e.ok)

TransmissionErrors ==
    { "interface not found", "failed to get interface addresses",
      "no suitable IPv4 address found", "failed to create UDP socket",
      "failed to send magic packet" }

\* C11: the first failing transmission ends SendRepeat: when attempt k fails,
\* exactly k-1 datagrams were written, nothing is attempted and no delay is
\* taken after it, its error is what the call returns, and the call never
\* returns success after a failed attempt.
ThmC11_FirstFailureEndsCall ==
    \A c \in Callers :
        LET f == calls[c] IN
        /\ WritesFailed(f.trace) <= 1
        /\ WritesFailed(f.trace) = 1 =>
              /\ f.pc \in {"Close", "done"}
              /\ f.trace[Len(f.trace) - (IF f.pc = "done" THEN 1 ELSE 0)].ev = "write"
              /\ f.pc = "done" => f.err = [kind |-> "failed to send magic packet"]
        /\ (f.pc = "done" /\ f.err.kind \in TransmissionErrors) =>
              /\ f.i < f.count
              /\ WritesOK(f.trace) = f.i
              /\ Sleeps(f.trace) = f.i
              /\ Opens(f.trace) \in {f.i, f.i + 1}
        /\ (f.pc = "done" /\ f.err = NoErr) => WritesFailed(f.trace) = 0

WitC11_SecondAttemptFailed ==
    \E c \in Callers :
        /\ calls[c].pc = "done"
        /\ calls[c].count = 3
        /\ calls[c].i = 1
        /\ calls[c].err.kind = "failed to send magic packet"
        /\ WritesOK(calls[c].trace) = 1
        /\ Opens(calls[c].trace) = 2

\* C12: every socket sendPacket opens is closed before it returns, on the
\* success path and on every failure path; no socket is open after Send or
\* SendRepeat returns and a call never holds more than one.
ThmC12_SocketsAlwaysClosed ==
    \A c \in Callers :
        LET f == calls[c]
            open == Opens(f.trace) - Closes(f.trace)
        IN  /\ open \in {0, 1}
            /\ f.conn # Nil <=> open = 1
            /\ f.pc \notin {"WriteToUDP", "Close"} => open = 0

WitC12_ClosedAfterFailedWrite ==
    \E c \in Callers :
        /\ calls[c].pc = "done"
        /\ calls[c].err.kind = "failed to send magic packet"
        /\ calls[c].conn = Nil
        /\ calls[c].trace[Len(calls[c].trace)].ev = "close"
        /\ Opens(calls[c].trace) = 2

\* an address that is IPv4 and not loopback, by what the sample is
IsUsableSample(a) == a.v4 /\ ~a.loopback

\* C13: with no interface configured sendPacket binds 0.0.0.0 port 0; with a
\* named interface it binds, on port 0, the first address of the interface's
\* list that is IPv4 and not loopback, and fails with the no-usable-address
\* error naming the interface, without opening a socket, when there is none.
ThmC13_SourceAddress ==
    \A c \in Callers :
        LET f == calls[c] IN
        /\ (sender # Nil /\ f.pc \in {"ListenUDP", "WriteToUDP", "Close"}) =>
              /\ IF sender.iface = ""
                 THEN /\ f.localIP = <<0, 0, 0, 0>>
                      /\ ~f.addrs.called
                      /\ \A k \in 1..Len(f.trace) : f.trace[k].ev \notin {"lookup", "addrs"}
                 ELSE /\ f.addrs.called
                      /\ \E k \in 1..Len(f.addrs.list) :
                            /\ IsUsableSample(f.addrs.list[k])
                            /\ \A j \in 1..(k - 1) : ~IsUsableSample(f.addrs.list[j])
                            /\ f.localIP = f.addrs.list[k].ip
              /\ f.conn # Nil => f.conn = [local |-> f.localIP, port |-> 0]
        /\ (f.pc = "done" /\ f.addrs.called) =>
              IF \E k \in 1..Len(f.addrs.list) : IsUsableSample(f.addrs.list[k])
              THEN f.err.kind \in {"failed to create UDP socket",
                                   "failed to send magic packet"}
              ELSE /\ f.err = [kind |-> "no suitable IPv4 address found",
                               iface |-> sender.iface]
                   /\ Opens(f.trace) = f.i
                   /\ f.conn = Nil
        /\ \A k \in 1..Len(f.trace) : f.trace[k].ev = "open" => f.trace[k].port = 0

WitC13_SecondAddressBound ==
    \E c \in Callers :
        /\ calls[c].pc = "WriteToUDP"
        /\ calls[c].addrs.called
        /\ Len(calls[c].addrs.list) = 2
        /\ calls[c].addrs.list[1].loopback
        /\ calls[c].conn # Nil
        /\ calls[c].conn.local = calls[c].addrs.list[2].ip

\* a SendRepeat(mac, 3) whose first interface lookup found no such interface
FirstLookupFailed(c) ==
    /\ calls[c].pc = "done"
    /\ calls[c].op = "SendRepeat"
    /\ calls[c].count = 3
    /\ calls[c].trace = <<[ev |-> "lookup", name |-> sender.iface]>>

\* C14 as stated: SendRepeat(mac, 3) on a sender whose interface does not
\* exist fails on the first send with the no-usable-address error.
CexC14_MissingInterfaceNoUsableAddress ==
    \A c \in Callers :
        FirstLookupFailed(c) => calls[c].err.kind = "no suitable IPv4 address found"

\* C14 (amended): SendRepeat(mac, 3) on a sender whose interface does not
\* exist fails on the first send with the interface-not-found error naming
\* the interface, attempts no further send and returns that error.
ThmC14_MissingInterfaceNotFound ==
    \A c \in Callers :
        /\ FirstLookupFailed(c) =>
              /\ calls[c].err = [kind |-> "interface not found", iface |-> sender.iface]
              /\ calls[c].i = 0
              /\ calls[c].conn = Nil
        /\ (calls[c].pc = "done" /\ calls[c].trace # <<>>
            /\ calls[c].trace[Len(calls[c].trace)].ev = "lookup") =>
              calls[c].err.kind = "interface not found"

WitC14_MissingInterface ==
    \E c \in Callers :
        /\ FirstLookupFailed(c)
        /\ sender.iface = "wlan0"
        /\ calls[c].err.kind = "interface not found"

\* the 102-byte magic packet of six octets, position by position
ExpectedPacket(octets) ==
    [k \in 1..102 |-> IF k <= 6 THEN 255 ELSE octets[((k - 7) % 6) + 1]]

\* C15: every datagram written by Send or SendRepeat is the complete 102-byte
\* magic packet of the call's MAC, written in one write to the broadcast
\* address fixed at NewSender time, on UDP port 9.
ThmC15_DatagramContent ==
    \A c \in Callers :
        LET f == calls[c] IN
        /\ \A k \in 1..Len(f.trace) :
              f.trace[k].ev = "write" =>
                  /\ f.trace[k].payload = ExpectedPacket(parseMAC(f.mac).bytes)
                  /\ f.trace[k].dstPort = 9
                  /\ f.trace[k].dstIP =
                        ParseIP(IF newIn.broadcast = <<>> THEN DefaultBroadcast
                                ELSE newIn.broadcast).ip
                  /\ newIn.broadcast = <<>> =>
                        f.trace[k].dstIP = V4InV6Prefix \o <<255, 255, 255, 255>>
                  /\ k > 1 /\ f.trace[k - 1].ev = "open"
        /\ WritesOK(f.trace) + WritesFailed(f.trace) <= Opens(f.trace)

WitC15_DatagramWritten ==
    \E c \in Callers :
        /\ calls[c].pc = "done"
        /\ calls[c].err = NoErr
        /\ WritesOK(calls[c].trace) = 2
        /\ calls[c].macBytes = <<0, 26, 43, 60, 77, 94>>
        /\ \E k \in 1..Len(calls[c].trace) :
              /\ calls[c].trace[k].ev = "write"
              /\ calls[c].trace[k].dstIP = V4InV6Prefix \o <<192, 168, 1, 255>>

\* C16: Send(mac) is SendRepeat(mac, 1): it runs the same call with count 1,
\* so it returns the parse error for an invalid MAC and otherwise performs
\* one open-write-close cycle with no delay.
ThmC16_SendIsSendRepeatOnce ==
    \A c \in Callers :
        LET f == calls[c] IN
        f.op = "Send" =>
            /\ f.count = 1
            /\ Sleeps(f.trace) = 0
            /\ f.i \in {0, 1}
            /\ IsPrefix(CycleEvents(f.trace), ExpectedCycles(1))
            /\ (f.pc = "done" /\ f.err = NoErr) =>
                  CycleEvents(f.trace) = <<"open", "write", "close">>
            /\ (f.pc = "done" /\ ValidateMAC(f.mac).err # NoErr) =>
                  f.err = parseMAC(f.mac).err

WitC16_SendDone ==
    \E c \in Callers :
        /\ calls[c].op = "Send"
        /\ calls[c].pc = "done"
        /\ calls[c].err = NoErr
        /\ sender.iface = "eth0"
        /\ Len(calls[c].trace) = 5

\* C17: a WOLSender keeps no state between calls and shares nothing between
\* concurrent calls: under any interleaving the sender's fields stay as
\* NewSender set them, each call has its own packet buffer and its own
\* socket, and every datagram a call writes is the magic packet of that
\* call's own MAC (so equal MACs give equal payloads).
ThmC17_CallsShareNothing ==
    /\ sender = [iface |-> newIn.iface,
                 broadcast |-> IF newIn.broadcast = <<>> THEN DefaultBroadcast
                               ELSE newIn.broadcast]
    /\ \A c \in Callers :
          LET f == calls[c] IN
          /\ f.magicPacket # <<>> =>
                /\ f.magicPacket = ExpectedPacket(parseMAC(f.mac).bytes)
                /\ \A d \in Callers :
                      calls[d].macBytes = f.macBytes =>
                          calls[d].magicPacket = f.magicPacket
          /\ \A k \in 1..Len(f.trace) :
                f.trace[k].ev = "write" => f.trace[k].payload = f.magicPacket
          /\ Opens(f.trace) - Closes(f.trace) = (IF f.conn = Nil THEN 0 ELSE 1)

WitC17_TwoCallsInFlight ==
    \E c, d \in Callers :
        /\ c < d
        /\ calls[c].pc = "WriteToUDP"
        /\ calls[d].pc = "Close"
        /\ calls[c].macBytes # <<>>
        /\ calls[d].macBytes # <<>>
        /\ calls[c].macBytes # calls[d].macBytes
        /\ WritesOK(calls[c].trace) = 1
        /\ WritesOK(calls[d].trace) = 2

(***************************************************************************)
(* C18: the wake endpoint answers a non-POST request with 405; a POST      *)
(* whose MAC fails ValidateMAC with 400, and no SendRepeat call is made    *)
(* and no packet is sent; a POST with a valid MAC calls SendRepeat with    *)
(* that MAC and count 3, and answers 500 with the cause when the call      *)
(* fails and 200 when it succeeds (after three written packets).           *)
(***************************************************************************)
ThmC18_WakeStatuses ==
    LET f == calls[1] IN
    /\ (req.called /\ (req.method # "POST" \/ ~req.body.json \/ ~req.body.valid)) =>
          /\ f = IdleCall
          /\ resp.called
          /\ ~resp.success
          /\ resp.status = (IF req.method # "POST" THEN 405 ELSE 400)
    /\ (req.called /\ req.method = "POST" /\ req.body.json /\ req.body.valid) =>
          /\ f.op = "SendRepeat" /\ f.mac = req.body.mac /\ f.count = 3
          /\ resp.called =>
                /\ f.pc = "done"
                /\ f.err # NoErr =>
                      /\ resp.status = 500 /\ ~resp.success
                      /\ resp.text.cause = f.err
                      /\ f.err.kind \in TransmissionErrors
                /\ f.err = NoErr =>
                      /\ resp.status = 200 /\ resp.success
                      /\ WritesOK(f.trace) = 3 /\ WritesFailed(f.trace) = 0

WitC18_ServerErrorAfterRetry ==
    /\ resp.called
    /\ req.method = "POST" /\ req.body.json /\ req.body.valid
    /\ resp.status = 500
    /\ calls[1].err.kind = "failed to send magic packet"
    /\ Len(calls[1].trace) > 3

(***************************************************************************)
(* C19: for every setting the value in effect in the server and wake       *)
(* commands is the one of the highest-priority source that supplies it:    *)
(* command-line flag, then environment variable, then configuration file,  *)
(* then default.                                                           *)
(***************************************************************************)
\* the flags of the run's command line that name setting s
FlagsFor(s) ==
    { f \in DOMAIN cfgIn.flags :
         FlagSetting(cfgIn.command, f) = s /\ cfgIn.flags[f].has }

FileSupplies(s) ==
    /\ cfgIn.file.exists
    /\ cfgIn.file.members[s].has
    /\ cfgIn.file.members[s].val # ZeroValue(s)

PriorityValue(s) ==
    IF FlagsFor(s) # {} THEN cfgIn.flags[CHOOSE f \in FlagsFor(s) : TRUE].val
    ELSE IF cfgIn.env[s].has THEN cfgIn.env[s].val
    ELSE IF FileSupplies(s) THEN cfgIn.file.members[s].val
    ELSE DefaultConfig[s]

CexC19_PriorityHolds ==
    cfg.called => \A s \in Settings : cfg.values[s] = PriorityValue(s)

(***************************************************************************)
(* C20: in a store that started empty, after any sequence of Add, Delete   *)
(* and Update calls no two stored devices have the same MAC string; an Add *)
(* whose MAC is already stored returns an error and leaves the devices as  *)
(* they were; an Update leaves every stored MAC, position by position, as  *)
(* it was.                                                                 *)
(***************************************************************************)
ThmC20_UniqueMACs ==
    /\ \A i, j \in 1..Len(devices) : i # j => devices[i].mac # devices[j].mac
    /\ (lastOp.called /\ lastOp.op = "Add"
          /\ \E i \in 1..Len(lastOp.before) : lastOp.before[i].mac = lastOp.mac) =>
          /\ lastOp.err # NoErr
          /\ devices = lastOp.before
    /\ (lastOp.called /\ lastOp.op = "Update") =>
          /\ Len(devices) = Len(lastOp.before)
          /\ \A i \in 1..Len(devices) : devices[i].mac = lastOp.before[i].mac

WitC20_UpdatedWithOtherMAC ==
    /\ lastOp.called /\ lastOp.op = "Update" /\ lastOp.err = NoErr
    /\ lastOp.device.mac # lastOp.mac
    /\ \E i \in 1..Len(devices) : devices[i].mac = lastOp.device.mac
    /\ devices # lastOp.before
    /\ Len(devices) = 3

(***************************************************************************)
(* C21: a successful Add, Delete or Update has written the whole device    *)
(* list to the file before it returns: in every state whose latest         *)
(* mutating call returned no error, the file is the encoding of the        *)
(* in-memory list, and a new Store opened on the path holds the same       *)
(* devices in the same order.                                              *)
(***************************************************************************)
ThmC21_ReloadAfterSuccess ==
    (lastOp.called /\ lastOp.err = NoErr) =>
        /\ disk = MarshalIndent(devices)
        /\ NewStore(disk).err = NoErr
        /\ NewStore(disk).store.devices = devices

WitC21_MixedDevicesReloaded ==
    /\ lastOp.called /\ lastOp.err = NoErr /\ lastOp.op = "Update"
    /\ Len(devices) = 3
    /\ devices[1].group = "" /\ devices[2].group = "lab"
    /\ NewStore(disk).store.devices = devices

(***************************************************************************)
(* C25: an Add, Delete or Update call that returns an error (duplicate     *)
(* MAC, MAC not found, or a failed write of the file) leaves the in-memory *)
(* device list exactly as it was before the call.                          *)
(***************************************************************************)
CexC25_FailedCallChangesNothing ==
    (lastOp.called /\ lastOp.err # NoErr) => devices = lastOp.before

(***************************************************************************)
(* C29: SendRepeat with a valid MAC and a count of zero or less returns    *)
(* success without looking up an interface, opening a socket, writing a    *)
(* datagram or sleeping: a nil result does not imply that a packet was     *)
(* sent.                                                                   *)
(***************************************************************************)
ThmC29_NonPositiveCountSendsNothing ==
    \A c \in Callers :
        LET f == calls[c] IN
        (f.op = "SendRepeat" /\ f.count <= 0) =>
            /\ f.trace = <<>>
            /\ f.conn = Nil
            /\ (f.pc = "done" /\ parseMAC(f.mac).err = NoErr) => f.err = NoErr

WitC29_NegativeCountSucceeded ==
    \E c \in Callers :
        /\ calls[c].op = "SendRepeat" /\ calls[c].count < 0
        /\ calls[c].pc = "done" /\ calls[c].err = NoErr
        /\ Len(calls[c].macBytes) = 6
        /\ calls[c].trace = <<>>

(***************************************************************************)
(* C23: the server serves the documented endpoints: GET /api/devices       *)
(* lists the devices, POST /api/devices adds one, PUT /api/devices/:id     *)
(* updates one, DELETE /api/devices/:id deletes one, POST /api/wake/:id    *)
(* sends a packet and GET /api/arp lists the ARP entries.                  *)
(***************************************************************************)
\* the operation the documentation gives for a request, "" when it names none
DocumentedOperation(method, path) ==
    CASE method = "GET" /\ path = <<"api", "devices">> -> "listHandler"
      [] method = "POST" /\ path = <<"api", "devices">> -> "addHandler"
      [] method = "PUT" /\ Len(path) = 3 /\ SubSeq(path, 1, 2) = <<"api", "devices">>
            -> "updateHandler"
      [] method = "DELETE" /\ Len(path) = 3 /\ SubSeq(path, 1, 2) = <<"api", "devices">>
            -> "deleteHandler"
      [] method = "POST" /\ Len(path) = 3 /\ SubSeq(path, 1, 2) = <<"api", "wake">>
            -> "wakeHandler"
      [] method = "GET" /\ path = <<"api", "arp">> -> "importHandler"
      [] OTHER -> ""

CexC23_DocumentedEndpointsServed ==
    (resp.called /\ DocumentedOperation(req.method, req.path) # "") =>
        resp.reached = DocumentedOperation(req.method, req.path)

(***************************************************************************)
(* C24: ParsePath returns, in file order, exactly the entries of the lines *)
(* after the first that are non-empty, are no comment, have at least six   *)
(* fields, carry a MAC of six colon-separated hex pairs other than all-    *)
(* zero and all-FF in any letter case, and have flags other than 0x0;      *)
(* every other line is skipped and the call does not fail.  (Lines are     *)
(* within the length the line scanner accepts.)                            *)
(***************************************************************************)
RECURSIVE ExpectedEntries(_, _)
\* the entries the lines from k on stand for
ExpectedEntries(lines, k) ==
    IF k > Len(lines) THEN <<>>
    ELSE (IF lines[k].has THEN <<lines[k].entry>> ELSE <<>>)
         \o ExpectedEntries(lines, k + 1)

AddResults(t) == SelectSeq(threads[t].results, LAMBDA r : r.op = "Add")
ReadResults(t) == SelectSeq(threads[t].results, LAMBDA r : r.op # "Add")

\* the number of Add calls in all programs
NumAdds ==
    Cardinality({ c \in UNION { {t} \X (1..Len(Programs[t])) : t \in 1..Len(Programs) } :
                     Programs[c[1]][c[2]].op = "Add" })

ThmC22_ConcurrentStore ==
    /\ (\E t \in Goroutines : Running(t)) => ENABLED NextStoreConcurrent
    /\ \A t \in Goroutines :
          /\ \A k \in 1..Len(ReadResults(t)) :
                \E h \in 1..Len(history) :
                   ReadResults(t)[k].value = ReadValue(ReadResults(t)[k].call, history[h])
          /\ \A k \in 1..Len(AddResults(t)) :
                AddResults(t)[k].write = "ok" => AddResults(t)[k].err = NoErr
    /\ ((\A t \in Goroutines : ~Running(t))
          /\ \A t \in Goroutines : \A k \in 1..Len(AddResults(t)) :
                AddResults(t)[k].write = "ok") =>
          Len(devices) = NumAdds

WitC22_AllReturned ==
    /\ \A t \in Goroutines : ~Running(t)
    /\ Len(devices) = 2
    /\ \E t \in Goroutines : \E k \in 1..Len(ReadResults(t)) :
          ReadResults(t)[k].op = "List" /\ Len(ReadResults(t)[k].value) = 1

(***************************************************************************)
(* C26: POST /api/add with a device that passes validateDevice responds    *)
(* 200 whenever the store file can be written, also when other requests    *)
(* for the same MAC are served at the same time: the existence check and   *)
(* the Add or Update that follows never fail because the store changed in  *)
(* between.                                                                *)
(***************************************************************************)
CexC26_ValidAddResponds200 ==
    \A r \in DOMAIN inflight :
        LET f == inflight[r] IN
        (/\ f.kind = "add"
         /\ f.pc = "responded"
         /\ f.method = "POST"
         /\ f.body.json
         /\ validateDevice(f.body.device) = NoErr
         /\ f.write = <<"ok">>) => f.resp.status = StatusOK

(***************************************************************************)
(* C27: a POST /api/import whose writes of the store file succeed adds     *)
(* exactly the request devices that have a non-empty MAC the store does    *)
(* not hold, and the number in its reply is the number of devices it added.*)
(***************************************************************************)
HandlerAborted(f) == f.resp.called /\ f.resp.status = Aborted.status

CexC27_ImportAddsAbsentAndCounts ==
    \A r \in DOMAIN inflight :
        LET f == inflight[r] IN
        (/\ f.kind = "import"
         /\ f.pc = "responded"
         /\ f.method = "POST"
         /\ f.body.json
         /\ ~HandlerAborted(f)
         /\ \A k \in 1..Len(f.write) : f.write[k] = "ok")
        => /\ f.added = f.absent
           /\ f.resp.text.n = Len(f.added)

(***************************************************************************)
(* C28: every device stored through /api/add or /api/import has a          *)
(* non-empty name and a MAC that ValidateMAC accepts, and no request       *)
(* makes the handler abort.                                                *)
(***************************************************************************)
CexC28_StoredDevicesValid ==
    /\ \A k \in 1..Len(devices) :
          inflight # <<>> =>
             /\ devices[k].name # <<>>
             /\ ValidateMAC(devices[k].mac).err = NoErr
    /\ \A r \in DOMAIN inflight : ~HandlerAborted(inflight[r])

(***************************************************************************)
(* C30: for a file logger with maxSize > 0, a Log call that finds the log  *)
(* file at or above maxSize, and whose rotation the file system carries    *)
(* out, has renamed the file it found to a backup named by the time of the *)
(* call, opened a fresh file at the path and written its line there; and   *)
(* once the cleanup started by the latest rotation has finished (with      *)
(* maxBackups > 0, the directory read), at most maxBackups backups remain  *)
(* and no removed backup was modified later than a remaining one.          *)
(***************************************************************************)
CexC30_RotateThenCleanup ==
    /\ LET c == logger.lastLog IN
       (/\ logger # NotCalled
        /\ c.called /\ c.logged /\ c.fileOpen
        /\ logger.maxSize > 0
        /\ c.found >= logger.maxSize
        /\ c.outcome # "rename" /\ c.outcome # "open")
       => /\ c.rotated
          /\ c.backup = [name |-> c.time, id |-> c.old, size |-> c.found,
                         mtime |-> c.backup.mtime]
          /\ c.backup \in logDir.backups \cup logDir.removed
          /\ logDir.current = [exists |-> TRUE, id |-> logDir.current.id,
                               size |-> c.line, mtime |-> c.time]
          /\ logDir.current.id # c.old
          /\ \A b \in logDir.backups \cup logDir.removed : b.id # logDir.current.id
          /\ logger.file = [isNil |-> FALSE, id |-> logDir.current.id, open |-> TRUE]
          /\ c.wrote = "file"
    /\ (/\ logger # NotCalled
        /\ logger.rotations > 0
        /\ logger.maxBackups > 0
        /\ cleanups[logger.rotations].pc = "done"
        /\ ~cleanups[logger.rotations].failed)
       => /\ Cardinality(logDir.backups) <= logger.maxBackups
          /\ \A b \in logDir.backups, x \in logDir.removed : ~After(x.mtime, b.mtime)

====
